---- MODULE Spec2Model ----
(***************************************************************************)
(* Model of the debate orchestration engine of strategy_debate.py:         *)
(* run_debate (round-robin loop, convergence check, early stop),           *)
(* save_intermediate / find_resume_point (checkpoint files and resume      *)
(* scan) and compress_critique_log (critique-log compression).             *)
(*                                                                         *)
(* Three specifications share the variables:                               *)
(*   Spec          run_debate invoked repeatedly on one output directory   *)
(*   SpecResume    find_resume_point applied to arbitrary directories      *)
(*   SpecCompress  compress_critique_log applied to bounded logs           *)
(***************************************************************************)
EXTENDS Integers, Sequences, FiniteSets, TLC

\* ------------------------------------------------------------------ bounds
\* largest value of the `rounds` argument of run_debate
MaxRounds == 3
\* number of run_debate invocations on the same output directory
MaxRuns == 2
\* number of reviewer replies per behaviour that are not a well-formed reply
\* with a non-empty document (empty document section, malformed reply)
MaxOddReplies == 1
\* largest total_rounds, and round of a file, in the directories that
\* find_resume_point is applied to on its own
MaxScanRounds == 2
\* number of lines of the logs compress_critique_log is applied to
MaxLogLines == 3
\* largest max_chars argument compress_critique_log is applied with
MaxCharsArg == 24
\* number of bullet lines beyond the ten kept that the long logs have
MaxExtraLines == 2
\* number of tokens of the replies parse_structured_output is applied to on
\* its own
MaxReplyLen == 6
\* largest max_retries argument of _retry
MaxAttempts == 3
\* number of debate jobs requested through the HTTP API at the same time
MaxThreads == 2
\* number of tokens of the arbitrary judge replies call_convergence_check is
\* applied to, and number of digits of a confidence section
MaxJudgeLen == 4
MaxDigits == 3

\* --------------------------------------------------------- program constants
\* run_debate(..., convergence_threshold: int = 70, ...)
DefaultThreshold == 70
\* other[:10] in compress_critique_log
OtherKept == 10

\* ------------------------------------------------------------------ values
\* systems = ["claude", "perplexity", "chatgpt"]   (find_resume_point)
systems == <<"claude", "perplexity", "chatgpt">>

\* steps = [("Claude", ...), ("Perplexity", ...), ("ChatGPT", ...)], the names
steps == <<"Claude", "Perplexity", "ChatGPT">>

\* start_step = 0  # 0=claude, 1=perplexity, 2=chatgpt   (never reassigned)
start_step == 0

\* name.lower() on the reviewer names of steps
Lower(name) ==
    CASE name = "Claude" -> "claude"
      [] name = "Perplexity" -> "perplexity"
      [] name = "ChatGPT" -> "chatgpt"
      [] OTHER -> name

\* s.capitalize() on the system names: first letter upper, the rest lower
Capitalize(s) ==
    CASE s = "claude" -> "Claude"
      [] s = "perplexity" -> "Perplexity"
      [] s = "chatgpt" -> "Chatgpt"
      [] OTHER -> s

\* run_debate(..., min_rounds: int = 2, ...)
DefaultMinRounds == 2

\* the min_rounds arguments run_debate is called with: any value from 0 to
\* beyond the largest rounds when auto_stop is set, else the default (the
\* argument is then never read)
MinRoundsOf(stop) == IF stop THEN 0..(MaxRounds + 1) ELSE {DefaultMinRounds}

\* A text is a sequence of tokens.  A token is one of the three section
\* markers of a reviewer reply, a blank, a line break, or a piece of other
\* text: the input document, the fixed placeholder critique, or the document
\* / critique written by the reviewer call of cell (r, i) of run number `run`.
Txt(kind, run, r, i) == [kind |-> kind, run |-> run, r |-> r, i |-> i]
TokDokument == Txt("---DOKUMENT---", 0, 0, 0)
TokKritikpunkte == Txt("---KRITIKPUNKTE---", 0, 0, 0)
TokEnde == Txt("---ENDE---", 0, 0, 0)
TokSpace == Txt(" ", 0, 0, 0)
TokNewline == Txt("\n", 0, 0, 0)
InputText == <<Txt("input", 0, 0, 0)>>
EmptyText == <<>>
\* "(Keine strukturierten Kritikpunkte extrahiert)"
Placeholder == <<Txt("(Keine strukturierten Kritikpunkte extrahiert)", 0, 0, 0)>>

\* line 426 without its test: the resume point is used whatever the document
Truthy_Always(t) == TRUE

\* Python truthiness of a str: non-empty
Truthy(t) == Len(t) > 0

\* stop_reason None
NoneReason == "None"
\* reason texts a judge reply can carry; the second is the default of
\* call_convergence_check for a reply without a reason section
Reasons == {"konvergiert", "Keine Begruendung extrahiert."}
\* confidence = int(conf_match.group(1)) if conf_match else 50
DefaultConfidence == 50
\* confidences call_convergence_check can return: the default of a reply
\* without a confidence section, and values around the threshold
Confidences ==
    {DefaultConfidence, DefaultThreshold - 1, DefaultThreshold,
     DefaultThreshold + 10}

\* shapes of a reviewer reply
ReplyKinds == {"ok", "emptydoc", "malformed"}

Rounds == 1..MaxRounds
\* checkpoint cells as (round, system name)
Cells == Rounds \X {systems[k] : k \in 1..3}
\* the cells in the order of the resume scan, as (round, index 0..2)
CellIdx == Rounds \X (0..2)

NoFile == [exists |-> FALSE, content |-> EmptyText, by |-> 0]
EmptyDir == [c \in Cells |-> NoFile]
NoVerdict == [set |-> FALSE, round |-> 0, stop |-> FALSE, confidence |-> 0,
              reason |-> NoneReason, stopped |-> FALSE]
NoResult == [set |-> FALSE, text |-> EmptyText, full_log |-> <<>>,
             rounds_completed |-> 0, stop_reason |-> NoneReason]
NoStart == [resume |-> FALSE, taken |-> FALSE, complete |-> FALSE,
            gap_round |-> 0, gap_step |-> 0, text |-> <<>>]

VARIABLES
    \* ---- arguments of run_debate (fixed for a behaviour, except resume)
    rounds, auto_stop, min_rounds, convergence_threshold, resume,
    \* ---- the output directory: the two files of each cell
    dir_exists, doc_file, crit_file,
    \* ---- run_debate's position and locals
    pc, run, r, i, start_round, text, full_log, doc_before_round,
    critique_for_round, round_critiques, rounds_completed, pending, result, raw,
    \* ---- history variables (not program state)
    calls, args, verdict, start_info, executed, completed, odd,
    \* ---- find_resume_point applied to a directory (SpecResume)
    scan_rounds, scan_out,
    \* ---- compress_critique_log applied to a log (SpecCompress)
    log_in, max_chars, log_out,
    \* ---- parse_structured_output applied to the reply `raw` (SpecParse)
    parse_out,
    \* ---- call_convergence_check's parsing of the judge's reply `raw`
    \* (SpecJudge): (should_stop, confidence, reason)
    check_out,
    \* ---- _retry(func, max_retries) (SpecRetry): the argument, the loop
    \* variable, the locals e and is_transient, what it returned or raised;
    \* history: the sleeps made, the numbers of invocations and failures of
    \* func, the value func returned
    max_retries, attempt, is_transient, exc, retry_out,
    sleeps, invocations, failures, func_value,
    \* ---- the HTTP API (SpecJob): the entry of the job in _jobs, the
    \* exception the worker caught; history: the number of synthesis calls
    job, caught, synth_calls,
    \* ---- concurrent API jobs (SpecClients): each worker thread's position and
    \* locals, the module globals _claude_client, _openai_client and
    \* _perplexity_client, the text in the StringIO of strategy_debate.console,
    \* the table _jobs, the files in the temporary directories; history: the
    \* threads that read and that wrote each shared variable
    th, clients, console_file, jobs, files, readers, writers

vars == <<rounds, auto_stop, min_rounds, convergence_threshold, resume,
          dir_exists, doc_file, crit_file,
          pc, run, r, i, start_round, text, full_log, doc_before_round,
          critique_for_round,
          round_critiques, rounds_completed, pending, result, raw,
          calls, args, verdict, start_info, executed, completed, odd,
          scan_rounds, scan_out, log_in, max_chars, log_out, parse_out,
          check_out,
          max_retries, attempt, is_transient, exc, retry_out,
          sleeps, invocations, failures, func_value,
          job, caught, synth_calls,
          th, clients, console_file, jobs, files, readers, writers>>

cfgVars == <<rounds, auto_stop, min_rounds, convergence_threshold>>
dirVars == <<dir_exists, doc_file, crit_file>>
scanVars == <<scan_rounds, scan_out>>
compressVars == <<log_in, max_chars, log_out>>
\* the variables of the specifications of single functions, which run_debate
\* leaves alone
retryVars == <<max_retries, attempt, is_transient, exc, retry_out,
               sleeps, invocations, failures, func_value>>
threadVars == <<th, clients, console_file, jobs, files, readers, writers>>
auxVars == <<scanVars, compressVars, parse_out, check_out, retryVars,
            threadVars>>
jobVars == <<job, caught, synth_calls>>

\* ------------------------------------------------------- find_resume_point
\* One log entry "\n[Runde r - Name]\n{critique}\n"
Entry(rr, name, critique) == [round |-> rr, name |-> name, critique |-> critique]

\* the scan with the test of line 377 reduced to doc_file.exists()
RECURSIVE ScanFrom_DocOnly(_, _, _, _, _, _, _)
ScanFrom_DocOnly(docs, crits, total_rounds, k, last_doc, last_log, last_round) ==
    LET rr == (k \div 3) + 1
        s == systems[(k % 3) + 1]
    IN  IF rr > total_rounds
        THEN [round |-> total_rounds + 1, text |-> last_doc, log |-> last_log]
        ELSE IF docs[<<rr, s>>].exists
        THEN ScanFrom_DocOnly(docs, crits, total_rounds, k + 1,
                      docs[<<rr, s>>].content,
                      Append(last_log,
                             Entry(rr, Capitalize(s), crits[<<rr, s>>].content)),
                      rr)
        ELSE IF last_round = 0
        THEN [round |-> 1, text |-> EmptyText, log |-> <<>>]
        ELSE [round |-> rr, text |-> last_doc, log |-> last_log]

\* The scan of find_resume_point from cell number k (0-based, row-major over
\* (round, system index)) with the accumulated last_doc, last_log, last_round.
RECURSIVE ScanFrom(_, _, _, _, _, _, _)
ScanFrom(docs, crits, total_rounds, k, last_doc, last_log, last_round) ==
    LET rr == (k \div 3) + 1
        s == systems[(k % 3) + 1]
    IN  IF rr > total_rounds
        THEN \* "Alles vorhanden"
             [round |-> total_rounds + 1, text |-> last_doc, log |-> last_log]
        ELSE IF docs[<<rr, s>>].exists /\ crits[<<rr, s>>].exists
        THEN ScanFrom(docs, crits, total_rounds, k + 1,
                      docs[<<rr, s>>].content,
                      Append(last_log,
                             Entry(rr, Capitalize(s), crits[<<rr, s>>].content)),
                      rr)
        ELSE IF last_round = 0
        THEN [round |-> 1, text |-> EmptyText, log |-> <<>>]
        ELSE \* resume_round if resume_step > 0 else resume_round
             [round |-> rr, text |-> last_doc, log |-> last_log]

\* find_resume_point returning last_round, the last round that has a complete
\* cell, where the code returns resume_round
RECURSIVE ScanFrom_LastRound(_, _, _, _, _, _, _)
ScanFrom_LastRound(docs, crits, total_rounds, k, last_doc, last_log, last_round) ==
    LET rr == (k \div 3) + 1
        s == systems[(k % 3) + 1]
    IN  IF rr > total_rounds
        THEN [round |-> total_rounds + 1, text |-> last_doc, log |-> last_log]
        ELSE IF docs[<<rr, s>>].exists /\ crits[<<rr, s>>].exists
        THEN ScanFrom_LastRound(docs, crits, total_rounds, k + 1,
                      docs[<<rr, s>>].content,
                      Append(last_log,
                             Entry(rr, Capitalize(s), crits[<<rr, s>>].content)),
                      rr)
        ELSE IF last_round = 0
        THEN [round |-> 1, text |-> EmptyText, log |-> <<>>]
        ELSE [round |-> last_round, text |-> last_doc, log |-> last_log]

find_resume_point_LastRound(docs, crits, total_rounds) ==
    ScanFrom_LastRound(docs, crits, total_rounds, 0, EmptyText, <<>>, 0)

find_resume_point(docs, crits, total_rounds) ==
    ScanFrom(docs, crits, total_rounds, 0, EmptyText, <<>>, 0)

\* ------------------------------------------------ parse_structured_output
\* \s : blank or line break
IsSpace(t) == t \in {TokSpace, TokNewline}

\* s.strip()
Strip(s) ==
    LET keep == {k \in 1..Len(s) : ~IsSpace(s[k])}
    IN  IF keep = {} THEN <<>>
        ELSE SubSeq(s, CHOOSE k \in keep : \A j \in keep : k <= j,
                       CHOOSE k \in keep : \A j \in keep : k >= j)

NoMatch == [found |-> FALSE, group |-> <<>>]

\* the pattern with a greedy group (.*): the group runs to the last closing
\* marker
MatchAt_Greedy(s, p, open, close) ==
    IF s[p] # open THEN NoMatch
    ELSE LET ends(q) == {e \in (q + 1)..Len(s) : s[e] = close}
             qs == {q \in (p + 1)..Len(s) :
                      /\ s[q] = TokNewline
                      /\ \A j \in (p + 1)..(q - 1) : IsSpace(s[j])
                      /\ ends(q) # {}}
         IN  IF qs = {} THEN NoMatch
             ELSE LET q == CHOOSE x \in qs : \A y \in qs : x >= y
                      e == CHOOSE x \in ends(q) : \A y \in ends(q) : x >= y
                  IN  [found |-> TRUE, group |-> SubSeq(s, q + 1, e - 1)]

\* The match of  open \s*\n(.*?)close  (re.DOTALL) that starts at position p:
\* the marker `open`, blanks and line breaks up to a line break (\s* is
\* greedy: the last line break q of the run after which `close` still
\* occurs), then the group (lazy) up to the first `close` after q.
MatchAt(s, p, open, close) ==
    IF s[p] # open THEN NoMatch
    ELSE LET ends(q) == {e \in (q + 1)..Len(s) : s[e] = close}
             qs == {q \in (p + 1)..Len(s) :
                      /\ s[q] = TokNewline
                      /\ \A j \in (p + 1)..(q - 1) : IsSpace(s[j])
                      /\ ends(q) # {}}
         IN  IF qs = {} THEN NoMatch
             ELSE LET q == CHOOSE x \in qs : \A y \in qs : x >= y
                      e == CHOOSE x \in ends(q) : \A y \in ends(q) : x <= y
                  IN  [found |-> TRUE, group |-> SubSeq(s, q + 1, e - 1)]

\* re.search: the match at the leftmost position that has one
RECURSIVE SearchFrom(_, _, _, _)
SearchFrom(s, p, open, close) ==
    IF p > Len(s) THEN NoMatch
    ELSE LET m == MatchAt(s, p, open, close)
         IN  IF m.found THEN m ELSE SearchFrom(s, p + 1, open, close)

re_search(s, open, close) == SearchFrom(s, 1, open, close)

\* line 331 with `or` for `and`: one matching section is enough
parse_structured_output_Either(s) ==
    LET doc_match == re_search(s, TokDokument, TokKritikpunkte)
        crit_match == re_search(s, TokKritikpunkte, TokEnde)
    IN  IF doc_match.found \/ crit_match.found
        THEN <<Strip(doc_match.group), Strip(crit_match.group)>>
        ELSE <<Strip(s), Placeholder>>

\* parse_structured_output(raw): (document, critique)
parse_structured_output(s) ==
    LET doc_match == re_search(s, TokDokument, TokKritikpunkte)
        crit_match == re_search(s, TokKritikpunkte, TokEnde)
    IN  IF doc_match.found /\ crit_match.found
        THEN <<Strip(doc_match.group), Strip(crit_match.group)>>
        ELSE <<Strip(s), Placeholder>>

\* The raw reply of the reviewer call of cell id = (run, r, i): in the
\* format the system prompts ask for, with an empty document section, or
\* without the closing ---ENDE---.
Reply(kind, id) ==
    LET doc == Txt("doc", id[1], id[2], id[3])
        crit == Txt("crit", id[1], id[2], id[3])
    IN  CASE kind = "ok" ->
                <<TokDokument, TokNewline, doc, TokNewline,
                  TokKritikpunkte, TokNewline, crit, TokNewline, TokEnde>>
          [] kind = "emptydoc" ->
                <<TokDokument, TokNewline,
                  TokKritikpunkte, TokNewline, crit, TokNewline, TokEnde>>
          [] OTHER ->
                <<TokDokument, TokNewline, doc, TokNewline,
                  TokKritikpunkte, TokNewline, crit, TokNewline>>

\* ---------------------------------------------------------------- run_debate
InRun == pc \in {"loop", "reviewer", "write_crit", "round_end", "judge"}

NoScan == [round |-> 0, text |-> EmptyText, log |-> <<>>]

\* no run_debate in progress
NoRun ==
    /\ resume = FALSE
    /\ run = 0
    /\ r = 0
    /\ i = 0
    /\ start_round = 0
    /\ text = EmptyText
    /\ full_log = <<>>
    /\ doc_before_round = EmptyText
    /\ critique_for_round = <<>>
    /\ round_critiques = <<>>
    /\ rounds_completed = 0
    /\ pending = <<EmptyText, EmptyText>>
    /\ raw = EmptyText
    /\ result = NoResult
    /\ calls = <<>>
    /\ args = <<>>
    /\ verdict = NoVerdict
    /\ start_info = NoStart
    /\ executed = [c \in CellIdx |-> 0]
    /\ completed = {}
    /\ odd = 0

NoScanInput ==
    /\ scan_rounds = 0
    /\ scan_out = NoScan

NoCompressInput ==
    /\ log_in = <<>>
    /\ max_chars = 0
    /\ log_out = <<>>

\* call_convergence_check not applied
NoCheck == [should_stop |-> <<>>, confidence |-> 0, reason |-> EmptyText]

NoParseOutput ==
    /\ parse_out = <<EmptyText, EmptyText>>
    /\ check_out = NoCheck

\* status_code / status of an exception that has none (None)
NoStatus == 0
NoException == [status_code |-> NoStatus, status |-> NoStatus, msg |-> <<>>]
NoOutcome == [kind |-> "none", value |-> "None", exc |-> NoException]

\* Optional values: None and a value
None == <<>>
Some(x) == <<x>>

\* no entry in _jobs
NoJob == [status |-> "absent", progress |-> None, result |-> None,
          rounds_completed |-> None, stop_reason |-> None, error |-> None]
HasJob == job.status # "absent"

\* the entry start_debate creates (api_server.py lines 162-170)
NewJob == [status |-> "running", progress |-> Some("Debatte gestartet..."),
           result |-> None, rounds_completed |-> None, stop_reason |-> None,
           error |-> None]

\* f"Runde {round_num} abgeschlossen - Konvergenz: {Ja|Nein} ({confidence}%)"
ProgressRound(round_num, should_stop, confidence) ==
    <<"Runde", round_num, IF should_stop THEN "Ja" ELSE "Nein", confidence>>

\* no API request made
\* the worker threads: the number of concurrent requests, the names of the
\* variables of the process that more than one of them can reach
Threads == 1..MaxThreads
ClientNames == {"_claude_client", "_openai_client", "_perplexity_client"}
SharedNames == ClientNames \cup {"console"}

\* no request made: the globals as the modules initialise them
NoThreads ==
    /\ th = [t \in Threads |->
                [pc |-> "start", step |-> 0, tmpdir |-> 0, handle |-> None]]
    /\ clients = [c \in ClientNames |-> None]
    /\ console_file = <<>>
    /\ jobs = [t \in Threads |-> "absent"]
    /\ files = {}
    /\ readers = [v \in SharedNames |-> {}]
    /\ writers = [v \in SharedNames |-> {}]

NoApi ==
    /\ job = NoJob
    /\ caught = None
    /\ synth_calls = 0
    /\ NoThreads

\* _retry not called
NoRetry ==
    /\ max_retries = 0
    /\ attempt = 0
    /\ is_transient = FALSE
    /\ exc = NoException
    /\ retry_out = NoOutcome
    /\ sleeps = <<>>
    /\ invocations = 0
    /\ failures = 0
    /\ func_value = "None"

\* run_debate is about to be called, on an output directory that does not
\* exist yet
Init ==
    /\ rounds \in Rounds
    /\ auto_stop \in BOOLEAN
    /\ min_rounds \in MinRoundsOf(auto_stop)
    /\ convergence_threshold = DefaultThreshold
    /\ dir_exists = FALSE
    /\ doc_file = EmptyDir
    /\ crit_file = EmptyDir
    /\ pc = "idle"
    /\ NoRun
    /\ NoScanInput
    /\ NoCompressInput
    /\ NoParseOutput
    /\ NoRetry
    /\ NoApi

\* the locals of a run that has ended are gone
DropLocals ==
    /\ r' = 0
    /\ i' = 0
    /\ start_round' = 0
    /\ text' = EmptyText
    /\ full_log' = <<>>
    /\ doc_before_round' = EmptyText
    /\ critique_for_round' = <<>>
    /\ round_critiques' = <<>>
    /\ rounds_completed' = 0
    /\ pending' = <<EmptyText, EmptyText>>
    /\ raw' = EmptyText

\* history: does every cell of rounds 1..rounds have both files, and which is
\* the first cell (row-major) that lacks one
Complete(docs, crits, n) ==
    \A c \in CellIdx : c[1] <= n =>
        docs[<<c[1], systems[c[2] + 1]>>].exists
        /\ crits[<<c[1], systems[c[2] + 1]>>].exists

Missing(docs, crits, c) ==
    ~(docs[<<c[1], systems[c[2] + 1]>>].exists
      /\ crits[<<c[1], systems[c[2] + 1]>>].exists)

Before(c, d) == c[1] < d[1] \/ (c[1] = d[1] /\ c[2] < d[2])

FirstGap(docs, crits, n) ==
    CHOOSE c \in CellIdx :
        /\ c[1] <= n
        /\ Missing(docs, crits, c)
        /\ \A d \in CellIdx : Before(d, c) => ~Missing(docs, crits, d)

\* run_debate, entry to the head of the round loop (lines 418-438)
StartRun ==
    /\ pc \in {"idle", "returned", "raised", "killed"}
    /\ run < MaxRuns
    /\ \E res \in BOOLEAN :
        LET info == find_resume_point(doc_file, crit_file, rounds)
            taken == res /\ dir_exists /\ Truthy(info.text)
            full == Complete(doc_file, crit_file, rounds)
            gap == IF full THEN <<0, 0>> ELSE FirstGap(doc_file, crit_file, rounds)
        IN  /\ resume' = res
            /\ text' = IF taken THEN info.text ELSE InputText
            /\ full_log' = IF taken THEN info.log ELSE <<>>
            /\ start_round' = IF taken THEN info.round ELSE 1
            /\ r' = IF taken THEN info.round ELSE 1
            /\ start_info' = [resume |-> res, taken |-> taken, complete |-> full,
                              gap_round |-> gap[1], gap_step |-> gap[2],
                              text |-> IF taken THEN info.text ELSE InputText]
            /\ executed' = IF taken THEN executed ELSE [c \in CellIdx |-> 0]
            /\ completed' = IF taken THEN completed ELSE {}
    /\ run' = run + 1
    /\ rounds_completed' = 0
    /\ i' = 0
    /\ doc_before_round' = EmptyText
    /\ critique_for_round' = <<>>
    /\ round_critiques' = <<>>
    /\ pending' = <<EmptyText, EmptyText>>
    /\ raw' = EmptyText
    /\ result' = NoResult
    /\ calls' = <<>>
    /\ args' = <<>>
    /\ verdict' = NoVerdict
    /\ pc' = "loop"
    /\ UNCHANGED <<cfgVars, dirVars, odd, auxVars, jobVars>>

\* compress_critique_log(full_log) as run_debate calls it (line 443, max_chars
\* 4000): the empty log is returned as it is, any other log stands for the
\* value of the function on it (the function itself: SpecCompress)
compress_full_log(log) ==
    IF log = <<>> THEN <<>> ELSE <<[compress_critique_log |-> log]>>

\* history: every reviewer is handed the input text, whatever the reviewers
\* before it returned; then
\* the arguments of func(text, critique_for_round, model) (line 457)
\* and of call_convergence_check(doc_before_round, text, round_critiques, r,
\* claude_model) (lines 483-485)
\* history: the critique history is recomputed for every call; then
ReviewerArgs_FreshLog == [text |-> text, critique |-> compress_full_log(full_log)]
ReviewerArgs_InputText == [text |-> InputText, critique |-> critique_for_round]
ReviewerArgs == [text |-> text, critique |-> critique_for_round]
JudgeArgs == [doc_before |-> doc_before_round, doc_after |-> text,
              critique |-> round_critiques]

\* for r in range(start_round, rounds + 1): the head of a round (lines 440-445)
RoundStart ==
    /\ pc = "loop"
    /\ r <= rounds
    /\ critique_for_round' = compress_full_log(full_log)
    /\ doc_before_round' = text
    /\ round_critiques' = <<>>
    /\ i' = 0
    /\ pc' = "reviewer"
    /\ verdict' = NoVerdict
    /\ UNCHANGED <<cfgVars, resume, dirVars, run, r, start_round, text, full_log,
                   rounds_completed, pending, raw, result, calls, args, start_info,
                   executed, completed, odd, auxVars, jobVars>>

\* where the inner loop goes after step i of round r
AfterStep ==
    IF i < 2
    THEN /\ i' = i + 1
         /\ pc' = "reviewer"
    ELSE /\ i' = i
         /\ pc' = "round_end"

\* the reviewer step with a parser that raises on a reply without valid
\* markers: the exception leaves run_debate
ReviewerCall_RaiseOnMalformed ==
    /\ pc = "reviewer"
    /\ \E kind \in ReplyKinds :
        LET reply == Reply(kind, <<run, r, i>>)
            parsed == parse_structured_output(reply)
            name == steps[i + 1]
            fails == parsed[2] = Placeholder
        IN  /\ kind # "ok" => odd < MaxOddReplies
            /\ odd' = IF kind # "ok" THEN odd + 1 ELSE odd
            /\ calls' = Append(calls, <<"reviewer", r, i>>)
            /\ args' = Append(args, ReviewerArgs)
            /\ executed' = [executed EXCEPT ![<<r, i>>] = @ + 1]
            /\ IF fails
               THEN /\ pc' = "raised"
                    /\ DropLocals
                    /\ UNCHANGED dirVars
               ELSE /\ text' = parsed[1]
                    /\ full_log' = Append(full_log, Entry(r, name, parsed[2]))
                    /\ round_critiques' =
                          Append(round_critiques,
                                 [name |-> name, critique |-> parsed[2]])
                    /\ pending' = <<parsed[1], parsed[2]>>
                    /\ raw' = reply
                    /\ dir_exists' = TRUE
                    /\ doc_file' = [doc_file EXCEPT ![<<r, Lower(name)>>] =
                                       [exists |-> TRUE, content |-> parsed[1],
                                        by |-> run]]
                    /\ crit_file' = crit_file
                    /\ pc' = "write_crit"
                    /\ UNCHANGED <<r, i, start_round, doc_before_round, critique_for_round,
                                   rounds_completed>>
    /\ UNCHANGED <<cfgVars, resume, run, result, verdict, start_info, completed,
                   auxVars, jobVars>>

\* one pass of the inner loop up to the first write of save_intermediate
\* (lines 447-461): the skip test, the reviewer call returning a reply,
\* parse_structured_output, text / full_log / round_critiques updated, mkdir
\* and the document file written
ReviewerCall ==
    /\ pc = "reviewer"
    /\ IF r = start_round /\ i < start_step
       THEN /\ AfterStep
            /\ UNCHANGED <<dirVars, text, full_log, round_critiques, pending,
                           raw, calls, args, executed, odd>>
       ELSE \E kind \in ReplyKinds :
            LET reply == Reply(kind, <<run, r, i>>)
                parsed == parse_structured_output(reply)
                doc == parsed[1]
                critique == parsed[2]
                name == steps[i + 1]
            IN  /\ kind # "ok" => odd < MaxOddReplies
                /\ odd' = IF kind # "ok" THEN odd + 1 ELSE odd
                /\ text' = doc
                /\ full_log' = Append(full_log, Entry(r, name, critique))
                /\ round_critiques' = Append(round_critiques,
                                             [name |-> name, critique |-> critique])
                /\ pending' = <<doc, critique>>
                /\ raw' = reply
                /\ dir_exists' = TRUE
                /\ doc_file' = [doc_file EXCEPT ![<<r, Lower(name)>>] =
                                   [exists |-> TRUE, content |-> doc, by |-> run]]
                /\ crit_file' = crit_file
                /\ calls' = Append(calls, <<"reviewer", r, i>>)
                /\ args' = Append(args, ReviewerArgs)
                /\ executed' = [executed EXCEPT ![<<r, i>>] = @ + 1]
                /\ i' = i
                /\ pc' = "write_crit"
    /\ UNCHANGED <<cfgVars, resume, run, r, start_round, doc_before_round, critique_for_round,
                   rounds_completed, result, verdict, start_info, completed,
                   auxVars, jobVars>>

\* save_intermediate writing the raw reply into the critique file instead of
\* the parsed critique
WriteCritique_RawReply ==
    /\ pc = "write_crit"
    /\ crit_file' = [crit_file EXCEPT ![<<r, Lower(steps[i + 1])>>] =
                        [exists |-> TRUE, content |-> raw, by |-> run]]
    /\ completed' = completed \cup {<<r, i>>}
    /\ pending' = <<EmptyText, EmptyText>>
    /\ AfterStep
    /\ UNCHANGED <<cfgVars, resume, dir_exists, doc_file, run, r, start_round,
                   text, full_log, doc_before_round, critique_for_round, round_critiques,
                   rounds_completed, raw, result, calls, args, verdict, start_info,
                   executed, odd, auxVars, jobVars>>

\* the second write of save_intermediate: the critique file (line 362), then
\* the next step of the inner loop
WriteCritique ==
    /\ pc = "write_crit"
    /\ crit_file' = [crit_file EXCEPT ![<<r, Lower(steps[i + 1])>>] =
                        [exists |-> TRUE, content |-> pending[2], by |-> run]]
    /\ completed' = completed \cup {<<r, i>>}
    /\ pending' = <<EmptyText, EmptyText>>
    /\ AfterStep
    /\ UNCHANGED <<cfgVars, resume, dir_exists, doc_file, run, r, start_round,
                   text, full_log, doc_before_round, critique_for_round, round_critiques,
                   rounds_completed, raw, result, calls, args, verdict, start_info,
                   executed, odd, auxVars, jobVars>>

\* the reviewer call in a try / except that goes on with the next step
ReviewerRaise_Swallow ==
    /\ pc = "reviewer"
    /\ calls' = Append(calls, <<"reviewer", r, i>>)
    /\ args' = Append(args, ReviewerArgs)
    /\ AfterStep
    /\ UNCHANGED <<cfgVars, resume, dirVars, run, r, start_round, text, full_log,
                   doc_before_round, critique_for_round, round_critiques, rounds_completed,
                   pending, raw, result, verdict, start_info, executed,
                   completed, odd, auxVars, jobVars>>

\* the reviewer call raises (non-transient failure, or _retry exhausted): the
\* exception leaves run_debate
ReviewerRaise ==
    /\ pc = "reviewer"
    /\ ~(r = start_round /\ i < start_step)
    /\ pc' = "raised"
    /\ calls' = Append(calls, <<"reviewer", r, i>>)
    /\ args' = Append(args, ReviewerArgs)
    /\ DropLocals
    /\ UNCHANGED <<cfgVars, resume, dirVars, run, result, verdict, start_info,
                   executed, completed, odd, auxVars, jobVars>>

\* line 479 without its upper limit: the judge is asked after the final round
ShouldCheck_NoUpperLimit == auto_stop /\ r >= min_rounds

\* line 479 with r > min_rounds: min_rounds rounds are not enough
ShouldCheckAt_Strict(m) == auto_stop /\ r > m /\ r < rounds

\* line 479 for a min_rounds argument m
ShouldCheckAt(m) == auto_stop /\ r >= m /\ r < rounds

\* if auto_stop and r >= min_rounds and r < rounds   (line 479)
ShouldCheck == ShouldCheckAt(min_rounds)

\* after the inner loop: rounds_completed = r and the test of line 479
RoundEnd ==
    /\ pc = "round_end"
    /\ rounds_completed' = r
    /\ IF ShouldCheck
       THEN /\ pc' = "judge"
            /\ r' = r
            /\ calls' = Append(calls, <<"judge", r, 0>>)
            /\ args' = Append(args, JudgeArgs)
       ELSE /\ pc' = "loop"
            /\ r' = r + 1
            /\ calls' = calls
            /\ args' = args
    /\ UNCHANGED <<cfgVars, resume, dirVars, run, i, start_round, text, full_log,
                   doc_before_round, critique_for_round, round_critiques, pending, raw, result,
                   verdict,
                   start_info, executed, completed, odd, auxVars, jobVars>>

\* if should_stop and confidence >= convergence_threshold   (line 497)
StopDecision(should_stop, confidence) ==
    should_stop /\ confidence >= convergence_threshold

\* the on_convergence callback called outside the try of line 482: its
\* exception leaves run_debate
JudgeReturn_CallbackEscapes ==
    /\ pc = "judge"
    /\ \E should_stop \in BOOLEAN, confidence \in Confidences,
          reason \in Reasons, cb_raises \in BOOLEAN :
        LET stops == ~cb_raises /\ StopDecision(should_stop, confidence)
        IN  /\ HasJob => ~cb_raises
            /\ job' = IF HasJob
                      THEN [job EXCEPT !.progress =
                               ProgressRound(r, should_stop, confidence)]
                      ELSE job
            /\ verdict' = [set |-> TRUE, round |-> r, stop |-> should_stop,
                           confidence |-> confidence, reason |-> reason,
                           stopped |-> stops]
            /\ IF stops
               THEN /\ result' = [set |-> TRUE, text |-> text,
                                  full_log |-> full_log,
                                  rounds_completed |-> rounds_completed,
                                  stop_reason |-> reason]
                    /\ pc' = "returned"
                    /\ DropLocals
               ELSE IF cb_raises
               THEN /\ result' = result
                    /\ pc' = "raised"
                    /\ DropLocals
               ELSE /\ result' = result
                    /\ pc' = "loop"
                    /\ r' = r + 1
                    /\ UNCHANGED <<i, start_round, text, full_log,
                                   doc_before_round, critique_for_round, round_critiques,
                                   rounds_completed, pending, raw>>
    /\ UNCHANGED <<cfgVars, resume, dirVars, run, calls, args, start_info, executed,
                   completed, odd, auxVars, caught, synth_calls>>

\* the try block of lines 482-507 when call_convergence_check returns
\* (should_stop, confidence, reason): the on_convergence callback (if any)
\* runs and may raise, then the stop decision.  The callback of the API
\* worker writes the progress of its job and raises nothing.
JudgeReturn ==
    /\ pc = "judge"
    /\ \E should_stop \in BOOLEAN, confidence \in Confidences,
          reason \in Reasons, cb_raises \in BOOLEAN :
        LET stops == ~cb_raises /\ StopDecision(should_stop, confidence)
        IN  /\ HasJob => ~cb_raises
            /\ job' = IF HasJob
                      THEN [job EXCEPT !.progress =
                               ProgressRound(r, should_stop, confidence)]
                      ELSE job
            /\ verdict' = [set |-> TRUE, round |-> r, stop |-> should_stop,
                           confidence |-> confidence, reason |-> reason,
                           stopped |-> stops]
            /\ IF stops
               THEN /\ result' = [set |-> TRUE, text |-> text,
                                  full_log |-> full_log,
                                  rounds_completed |-> rounds_completed,
                                  stop_reason |-> reason]
                    /\ pc' = "returned"
                    /\ DropLocals
               ELSE /\ result' = result
                    /\ pc' = "loop"
                    /\ r' = r + 1
                    /\ UNCHANGED <<i, start_round, text, full_log,
                                   doc_before_round, critique_for_round, round_critiques,
                                   rounds_completed, pending, raw>>
    /\ UNCHANGED <<cfgVars, resume, dirVars, run, calls, args, start_info, executed,
                   completed, odd, auxVars, caught, synth_calls>>

\* the convergence check without the try / except of lines 482-507: the
\* exception of call_convergence_check leaves run_debate
JudgeRaise_Abort ==
    /\ pc = "judge"
    /\ verdict' = NoVerdict
    /\ pc' = "raised"
    /\ DropLocals
    /\ UNCHANGED <<cfgVars, resume, dirVars, run, result, calls, args, start_info,
                   executed, completed, odd, auxVars, jobVars>>

\* call_convergence_check raises: caught by the except of line 505, the loop
\* goes on
JudgeRaise ==
    /\ pc = "judge"
    /\ verdict' = NoVerdict
    /\ pc' = "loop"
    /\ r' = r + 1
    /\ UNCHANGED <<cfgVars, resume, dirVars, run, i, start_round, text, full_log,
                   doc_before_round, critique_for_round, round_critiques, rounds_completed, pending,
                   raw, result, calls, args, start_info, executed, completed, odd,
                   auxVars, jobVars>>

\* the loop is over: return text, full_log, rounds_completed, None (line 509)
LoopExit ==
    /\ pc = "loop"
    /\ r > rounds
    /\ result' = [set |-> TRUE, text |-> text, full_log |-> full_log,
                  rounds_completed |-> rounds_completed,
                  stop_reason |-> NoneReason]
    /\ pc' = "returned"
    /\ DropLocals
    /\ UNCHANGED <<cfgVars, resume, dirVars, run, calls, args, verdict, start_info,
                   executed, completed, odd, auxVars, jobVars>>

\* the process is interrupted (KeyboardInterrupt, kill) anywhere in a run: the
\* files stay as they are, the locals are lost
Interrupt ==
    /\ InRun
    /\ pc' = "killed"
    /\ verdict' = NoVerdict
    /\ DropLocals
    /\ UNCHANGED <<cfgVars, resume, dirVars, run, result, calls, args, start_info,
                   executed, completed, odd, auxVars, jobVars>>

Next ==
    \/ StartRun
    \/ RoundStart
    \/ ReviewerCall
    \/ WriteCritique
    \/ ReviewerRaise
    \/ RoundEnd
    \/ JudgeReturn
    \/ JudgeRaise
    \/ LoopExit
    \/ Interrupt

Spec == Init /\ [][Next]_vars

\* run_debate with every backend call returning or raising, and the process
\* given time to run: the loops of lines 440 and 446 wait for nothing but the
\* call of line 457 and the judge of line 483, so every position of a run is
\* left.  At "reviewer" the call returns (ReviewerCall) or raises
\* (ReviewerRaise); both are enabled exactly there and both leave the position,
\* so weak fairness of either of them says no more than that the call ends.
\* It is stated for ReviewerRaise, whose enabling condition needs no parsing;
\* it forces no call to raise, since a call that returns disables it.
LoopStep == RoundStart \/ LoopExit
JudgeEnds == JudgeReturn \/ JudgeRaise

SpecLive ==
    /\ Init /\ [][Next]_vars
    /\ WF_vars(LoopStep)
    /\ WF_vars(ReviewerRaise)
    /\ WF_vars(WriteCritique)
    /\ WF_vars(RoundEnd)
    /\ WF_vars(JudgeEnds)

\* --------------------------------------------- find_resume_point on its own
ScanCells == (1..MaxScanRounds) \X {systems[k] : k \in 1..3}
ScanIdx == (1..MaxScanRounds) \X (0..2)

\* the file of a cell as some earlier run left it
StoredDoc(c) == [exists |-> TRUE,
                 content |-> <<Txt("doc", 1, c[1], CHOOSE k \in 0..2 : systems[k + 1] = c[2])>>,
                 by |-> 1]
StoredCrit(c) == [exists |-> TRUE,
                  content |-> <<Txt("crit", 1, c[1], CHOOSE k \in 0..2 : systems[k + 1] = c[2])>>,
                  by |-> 1]

\* any directory: each of the two files of each cell is there or not
InitResume ==
    /\ rounds = 1
    /\ auto_stop = FALSE
    /\ min_rounds = DefaultMinRounds
    /\ convergence_threshold = DefaultThreshold
    /\ dir_exists = TRUE
    /\ \E have \in SUBSET ScanCells :
          doc_file = [c \in ScanCells |-> IF c \in have THEN StoredDoc(c) ELSE NoFile]
    /\ \E have \in SUBSET ScanCells :
          crit_file = [c \in ScanCells |-> IF c \in have THEN StoredCrit(c) ELSE NoFile]
    /\ pc = "scan"
    /\ NoRun
    /\ scan_rounds \in 1..MaxScanRounds
    /\ scan_out = NoScan
    /\ NoCompressInput
    /\ NoParseOutput
    /\ NoRetry
    /\ NoApi

\* find_resume_point(output_dir, total_rounds)
ResumeScan ==
    /\ pc = "scan"
    /\ scan_out' = find_resume_point(doc_file, crit_file, scan_rounds)
    /\ pc' = "scanned"
    /\ UNCHANGED <<cfgVars, resume, dirVars, run, r, i, start_round, text,
                   full_log, doc_before_round, critique_for_round, round_critiques,
                   rounds_completed, pending, raw, result, calls, args, verdict,
                   start_info, executed, completed, odd, scan_rounds,
                   compressVars, parse_out, check_out, retryVars, jobVars, threadVars>>

NextResume == ResumeScan

SpecResume == InitResume /\ [][NextResume]_vars

\* ------------------------------------------------------ compress_critique_log
\* Texts are sequences of characters here.
NL == "\n"
RundePrefix == <<"[", "R", "u", "n", "d", "e">>
DissensMarker == <<"[", "D", "I", "S", "S", "E", "N", "S", "]">>
BulletPrefix == <<"-", " ", "[">>
\* "\n... (gekuerzt)", the u-umlaut written as the one character "u"
TruncationMarker ==
    <<NL, ".", ".", ".", " ", "(", "g", "e", "k", "u", "r", "z", "t", ")">>

\* l.startswith(p)
StartsWith(l, p) == Len(l) >= Len(p) /\ SubSeq(l, 1, Len(p)) = p

\* m in l
Contains(l, m) ==
    \E k \in 1..(Len(l) - Len(m) + 1) : SubSeq(l, k, k + Len(m) - 1) = m

\* s[:n]
Take(s, n) == SubSeq(s, 1, IF n < Len(s) THEN n ELSE Len(s))

\* s.split("\n"): the lines of s, at least one
RECURSIVE SplitFrom(_, _, _)
SplitFrom(s, k, cur) ==
    IF k > Len(s) THEN <<cur>>
    ELSE IF s[k] = NL THEN <<cur>> \o SplitFrom(s, k + 1, <<>>)
    ELSE SplitFrom(s, k + 1, Append(cur, s[k]))

Split(s) == SplitFrom(s, 1, <<>>)

\* "\n".join(lines)
RECURSIVE Join(_)
Join(lines) ==
    IF Len(lines) = 0 THEN <<>>
    ELSE IF Len(lines) = 1 THEN lines[1]
    ELSE lines[1] \o <<NL>> \o Join(Tail(lines))

IsDissens(l) == Contains(l, DissensMarker)
IsHeader(l) == StartsWith(l, RundePrefix)
IsOther(l) == StartsWith(l, BulletPrefix) /\ ~Contains(l, DissensMarker)

\* lines 341-342 with < for <=: a log of exactly max_chars is compressed
compress_critique_log_Strict(log, mc) ==
    IF Len(log) < mc
    THEN log
    ELSE LET lines == Split(log)
             compressed == Join(SelectSeq(lines, IsHeader)
                                \o SelectSeq(lines, IsDissens)
                                \o Take(SelectSeq(lines, IsOther), OtherKept))
         IN  IF Len(compressed) > mc
             THEN Take(compressed, mc) \o TruncationMarker
             ELSE compressed

\* line 349 with other for other[:10]: every other bullet line is kept
compress_critique_log_AllOther(log, mc) ==
    IF Len(log) <= mc
    THEN log
    ELSE LET lines == Split(log)
             compressed == Join(SelectSeq(lines, IsHeader)
                                \o SelectSeq(lines, IsDissens)
                                \o SelectSeq(lines, IsOther))
         IN  IF Len(compressed) > mc
             THEN Take(compressed, mc) \o TruncationMarker
             ELSE compressed

\* compress_critique_log(log, max_chars)
compress_critique_log(log, mc) ==
    IF Len(log) <= mc
    THEN log
    ELSE LET lines == Split(log)
             dissens == SelectSeq(lines, IsDissens)
             headers == SelectSeq(lines, IsHeader)
             other == SelectSeq(lines, IsOther)
             compressed == Join(headers \o dissens \o Take(other, OtherKept))
         IN  IF Len(compressed) > mc
             THEN Take(compressed, mc) \o TruncationMarker
             ELSE compressed

\* the lines the logs are made of: a round header, a disagreement bullet, a
\* line with the marker that is no bullet, another bullet, plain text and the
\* empty line
LineHeader == RundePrefix \o <<" ", "1", "]">>
LineDissens == <<"-", " ">> \o DissensMarker \o <<" ", "a">>
LineDissensPlain == DissensMarker \o <<"b">>
LineOther == BulletPrefix \o <<"N", "]", " ", "c">>
LinePlain == <<"x", "y">>
LineEmpty == <<>>
LineTemplates ==
    {LineHeader, LineDissens, LineDissensPlain, LineOther, LinePlain, LineEmpty}

\* long logs: more than ten short bullet lines, then at most one line of
\* another kind
LineOtherA == BulletPrefix \o <<"a">>
LineOtherB == BulletPrefix \o <<"b">>
LongLogs ==
    {Join(body \o tl) :
        body \in UNION {[1..n -> {LineOtherA, LineOtherB}] :
                           n \in (OtherKept + 1)..(OtherKept + MaxExtraLines)},
        tl \in {<<>>, <<LineHeader>>, <<LineDissens>>, <<LinePlain>>}}

InitCompress ==
    /\ rounds = 1
    /\ auto_stop = FALSE
    /\ min_rounds = DefaultMinRounds
    /\ convergence_threshold = DefaultThreshold
    /\ dir_exists = FALSE
    /\ doc_file = EmptyDir
    /\ crit_file = EmptyDir
    /\ pc = "compress"
    /\ NoRun
    /\ NoScanInput
    /\ \/ /\ \E n \in 1..MaxLogLines :
                \E ls \in [1..n -> LineTemplates] : log_in = Join(ls)
          /\ max_chars \in 0..MaxCharsArg
       \/ /\ log_in \in LongLogs
          /\ max_chars \in {MaxCharsArg, Len(log_in) - 1}
    /\ log_out = <<>>
    /\ NoParseOutput
    /\ NoRetry
    /\ NoApi

\* compress_critique_log(log_in, max_chars)
Compress ==
    /\ pc = "compress"
    /\ log_out' = compress_critique_log(log_in, max_chars)
    /\ pc' = "compressed"
    /\ UNCHANGED <<cfgVars, resume, dirVars, run, r, i, start_round, text,
                   full_log, doc_before_round, critique_for_round, round_critiques,
                   rounds_completed, pending, raw, result, calls, args, verdict,
                   start_info, executed, completed, odd, scanVars, log_in,
                   max_chars, parse_out, check_out, retryVars, jobVars, threadVars>>

NextCompress == Compress

SpecCompress == InitCompress /\ [][NextCompress]_vars

\* ------------------------------------------- parse_structured_output on its own
\* the tokens of the replies: the markers, blank, line break, other text
ReplyTokens ==
    {TokDokument, TokKritikpunkte, TokEnde, TokSpace, TokNewline,
     Txt("x", 0, 0, 0)}

\* the variables of run_debate other than raw
debateVars == <<cfgVars, resume, dirVars, run, r, i, start_round, text,
                full_log, doc_before_round, critique_for_round, round_critiques, rounds_completed,
                pending, result, calls, args, verdict, start_info, executed,
                completed, odd>>

\* any reply of at most MaxReplyLen tokens
InitParse ==
    /\ rounds = 1
    /\ auto_stop = FALSE
    /\ min_rounds = DefaultMinRounds
    /\ convergence_threshold = DefaultThreshold
    /\ dir_exists = FALSE
    /\ doc_file = EmptyDir
    /\ crit_file = EmptyDir
    /\ pc = "parse"
    /\ resume = FALSE
    /\ run = 0
    /\ r = 0
    /\ i = 0
    /\ start_round = 0
    /\ text = EmptyText
    /\ full_log = <<>>
    /\ doc_before_round = EmptyText
    /\ critique_for_round = <<>>
    /\ round_critiques = <<>>
    /\ rounds_completed = 0
    /\ pending = <<EmptyText, EmptyText>>
    /\ \E n \in 0..MaxReplyLen : raw \in [1..n -> ReplyTokens]
    /\ result = NoResult
    /\ calls = <<>>
    /\ args = <<>>
    /\ verdict = NoVerdict
    /\ start_info = NoStart
    /\ executed = [c \in CellIdx |-> 0]
    /\ completed = {}
    /\ odd = 0
    /\ NoScanInput
    /\ NoCompressInput
    /\ NoParseOutput
    /\ NoRetry
    /\ NoApi

\* doc, critique = parse_structured_output(raw)
Parse ==
    /\ pc = "parse"
    /\ parse_out' = parse_structured_output(raw)
    /\ pc' = "parsed"
    /\ UNCHANGED <<debateVars, raw, scanVars, compressVars, check_out,
                   retryVars, jobVars, threadVars>>

NextParse == Parse

SpecParse == InitParse /\ [][NextParse]_vars

\* ---------------------------------------------------- call_convergence_check
\* the markers and words of the judge's reply; a decimal digit
TokVerdict == Txt("---VERDICT---", 0, 0, 0)
TokConfidence == Txt("---CONFIDENCE---", 0, 0, 0)
TokReason == Txt("---REASON---", 0, 0, 0)
TokStop == Txt("STOP", 0, 0, 0)
TokContinue == Txt("CONTINUE", 0, 0, 0)
Digit(d) == Txt("digit", 0, 0, d)
IsDigit(t) == t.kind = "digit"
\* "Keine Begründung extrahiert."
NoReason == <<Txt("Keine Begruendung extrahiert.", 0, 0, 0)>>

\* int(group) of a run of digits
RECURSIVE IntOf(_)
IntOf(ds) ==
    IF ds = <<>> THEN 0
    ELSE 10 * IntOf(SubSeq(ds, 1, Len(ds) - 1)) + ds[Len(ds)].i

\* The position where the group of  open \s*\n\s*(...)  begins when the
\* pattern is tried at position p: the first token after the blanks and line
\* breaks that follow the marker, if a line break is among them; 0 if the
\* marker is not at p or no line break follows it.
GroupStart(s, p, open) ==
    IF s[p] # open THEN 0
    ELSE LET rest == {e \in (p + 1)..Len(s) : ~IsSpace(s[e])}
             e == IF rest = {} THEN Len(s) + 1
                  ELSE CHOOSE x \in rest : \A y \in rest : x <= y
         IN  IF \E q \in (p + 1)..(e - 1) : s[q] = TokNewline
             THEN e ELSE 0

\* re.search(r"---VERDICT---\s*\n\s*(STOP|CONTINUE)", raw)
verdict_match(s) ==
    LET ps == {p \in 1..Len(s) :
                 LET e == GroupStart(s, p, TokVerdict)
                 IN  e \in 1..Len(s) /\ s[e] \in {TokStop, TokContinue}}
    IN  IF ps = {} THEN NoMatch
        ELSE LET p == CHOOSE x \in ps : \A y \in ps : x <= y
             IN  [found |-> TRUE, group |-> <<s[GroupStart(s, p, TokVerdict)]>>]

\* re.search(r"---CONFIDENCE---\s*\n\s*(\d+)", raw): the group is the whole
\* run of digits
conf_match(s) ==
    LET ps == {p \in 1..Len(s) :
                 LET e == GroupStart(s, p, TokConfidence)
                 IN  e \in 1..Len(s) /\ IsDigit(s[e])}
    IN  IF ps = {} THEN NoMatch
        ELSE LET p == CHOOSE x \in ps : \A y \in ps : x <= y
                 e == GroupStart(s, p, TokConfidence)
                 run_end == CHOOSE x \in e..Len(s) :
                               /\ \A j \in e..x : IsDigit(s[j])
                               /\ x = Len(s) \/ ~IsDigit(s[x + 1])
             IN  [found |-> TRUE, group |-> SubSeq(s, e, run_end)]

\* re.search(r"---REASON---\s*\n(.*?)---ENDE---", raw, re.DOTALL)
reason_match(s) == re_search(s, TokReason, TokEnde)

\* a truthy should_stop
IsTrue(x) == x = Some(TRUE)

\* the three values set only when all three sections are found
call_convergence_check_AllOrNothing(s) ==
    IF verdict_match(s).found /\ conf_match(s).found /\ reason_match(s).found
    THEN [should_stop |-> Some(verdict_match(s).group = <<TokStop>>),
          confidence |-> IntOf(conf_match(s).group),
          reason |-> Strip(reason_match(s).group)]
    ELSE [should_stop |-> None, confidence |-> DefaultConfidence,
          reason |-> NoReason]

\* lines 293-301: (should_stop, confidence, reason) of the reply; should_stop
\* is None when the verdict pattern does not match
call_convergence_check(s) ==
    [should_stop |-> IF verdict_match(s).found
                     THEN Some(verdict_match(s).group = <<TokStop>>)
                     ELSE None,
     confidence |-> IF conf_match(s).found
                    THEN IntOf(conf_match(s).group)
                    ELSE DefaultConfidence,
     reason |-> IF reason_match(s).found
                THEN Strip(reason_match(s).group)
                ELSE NoReason]

\* the replies: every sequence of at most MaxJudgeLen tokens, and the replies
\* in the format of SYSTEM_CONVERGENCE whose sections are each well-formed,
\* absent or damaged
JudgeTokens ==
    {TokVerdict, TokConfidence, TokReason, TokEnde, TokNewline, TokStop,
     TokContinue, Digit(0), Digit(1), Txt("x", 0, 0, 0)}
Numbers ==
    UNION {[1..n -> {Digit(0), Digit(1), Digit(9)}] : n \in 1..MaxDigits}
VerdictSections ==
    {<<>>,
     <<TokVerdict, TokNewline, TokStop, TokNewline>>,
     <<TokVerdict, TokNewline, TokContinue, TokNewline>>,
     <<TokVerdict, TokSpace, TokNewline, TokNewline, TokSpace, TokStop,
       TokNewline>>,
     <<TokVerdict, TokSpace, TokStop, TokNewline>>,
     <<TokVerdict, TokNewline, Txt("x", 0, 0, 0), TokNewline>>,
     <<TokStop, TokNewline>>}
ConfidenceSections ==
    {<<>>, <<TokConfidence, TokNewline, Txt("x", 0, 0, 0), TokNewline>>}
    \cup {<<TokConfidence, TokNewline>> \o n \o <<TokNewline>> : n \in Numbers}
    \cup {<<TokConfidence, TokSpace>> \o n \o <<TokNewline>> : n \in Numbers}
ReasonSections ==
    {<<>>,
     <<TokReason, TokNewline, Txt("x", 0, 0, 0), TokNewline, TokEnde>>,
     <<TokReason, TokNewline, Txt("x", 0, 0, 0), TokNewline>>,
     <<TokReason, TokSpace, Txt("x", 0, 0, 0), TokNewline, TokEnde>>}
JudgeReplies ==
    UNION {[1..n -> JudgeTokens] : n \in 0..MaxJudgeLen}
    \cup {v \o c \o t : v \in VerdictSections, c \in ConfidenceSections,
                        t \in ReasonSections}

\* thresholds the run can be called with: none, the default, the largest
Thresholds == {0, DefaultThreshold, 100}

InitJudge ==
    /\ rounds = 1
    /\ auto_stop = TRUE
    /\ min_rounds = DefaultMinRounds
    /\ convergence_threshold \in Thresholds
    /\ dir_exists = FALSE
    /\ doc_file = EmptyDir
    /\ crit_file = EmptyDir
    /\ pc = "check"
    /\ resume = FALSE
    /\ run = 0
    /\ r = 0
    /\ i = 0
    /\ start_round = 0
    /\ text = EmptyText
    /\ full_log = <<>>
    /\ doc_before_round = EmptyText
    /\ critique_for_round = <<>>
    /\ round_critiques = <<>>
    /\ rounds_completed = 0
    /\ pending = <<EmptyText, EmptyText>>
    /\ raw \in JudgeReplies
    /\ result = NoResult
    /\ calls = <<>>
    /\ args = <<>>
    /\ verdict = NoVerdict
    /\ start_info = NoStart
    /\ executed = [c \in CellIdx |-> 0]
    /\ completed = {}
    /\ odd = 0
    /\ NoScanInput
    /\ NoCompressInput
    /\ NoParseOutput
    /\ NoRetry
    /\ NoApi

\* should_stop, confidence, reason = call_convergence_check(...) on the reply
\* raw  (lines 289-301, 483-485)
JudgeParse ==
    /\ pc = "check"
    /\ check_out' = call_convergence_check(raw)
    /\ pc' = "checked"
    /\ UNCHANGED <<debateVars, raw, scanVars, compressVars, parse_out,
                   retryVars, jobVars, threadVars>>

\* if should_stop and confidence >= convergence_threshold: return, else the
\* next round  (lines 497-503)
JudgeDecide ==
    /\ pc = "checked"
    /\ pc' = IF StopDecision(IsTrue(check_out.should_stop),
                             check_out.confidence)
             THEN "stop" ELSE "continue"
    /\ UNCHANGED <<debateVars, raw, scanVars, compressVars, parse_out,
                   check_out, retryVars, jobVars, threadVars>>

NextJudge ==
    \/ JudgeParse
    \/ JudgeDecide

SpecJudge == InitJudge /\ [][NextJudge]_vars

\* ------------------------------------------------------------------ _retry
\* status in (429, 500, 502, 503, 529)
TransientStatuses == {429, 500, 502, 503, 529}

UpperLetters ==
    <<"A", "B", "C", "D", "E", "F", "G", "H", "I", "J", "K", "L", "M",
      "N", "O", "P", "Q", "R", "S", "T", "U", "V", "W", "X", "Y", "Z">>
LowerLetters ==
    <<"a", "b", "c", "d", "e", "f", "g", "h", "i", "j", "k", "l", "m",
      "n", "o", "p", "q", "r", "s", "t", "u", "v", "w", "x", "y", "z">>

\* err_str.lower(), on a sequence of characters
LowerStr(str) ==
    [k \in 1..Len(str) |->
        IF \E n \in 1..26 : UpperLetters[n] = str[k]
        THEN LowerLetters[CHOOSE n \in 1..26 : UpperLetters[n] = str[k]]
        ELSE str[k]]

RateWord == <<"r", "a", "t", "e">>
OverloadedWord == <<"o", "v", "e", "r", "l", "o", "a", "d", "e", "d">>

\* lines 205-209 without .lower(): the words are looked for as written
ClassifyTransient_CaseSensitive(e) ==
    LET err_str == e.msg
        status == IF e.status_code # NoStatus THEN e.status_code ELSE e.status
        by_status == status \in TransientStatuses
    IN  IF ~by_status /\ (Contains(err_str, RateWord)
                          \/ Contains(err_str, OverloadedWord))
        THEN TRUE
        ELSE by_status

\* is_transient as lines 205-209 compute it from the exception e:
\*   status = getattr(e, "status_code", None) or getattr(e, "status", None)
\*   is_transient = status in (429, 500, 502, 503, 529)
\*   if not is_transient and ("rate" in err_str.lower()
\*                            or "overloaded" in err_str.lower()): True
ClassifyTransient(e) ==
    LET err_str == e.msg
        status == IF e.status_code # NoStatus THEN e.status_code ELSE e.status
        by_status == status \in TransientStatuses
    IN  IF ~by_status /\ (Contains(LowerStr(err_str), RateWord)
                          \/ Contains(LowerStr(err_str), OverloadedWord))
        THEN TRUE
        ELSE by_status

\* the backoff counted from 2 ** attempt
wait_FromOne(a) == 2 ^ a

\* wait = 2 ** (attempt + 1)
wait(a) == 2 ^ (a + 1)

\* line 209 with attempt < max_retries: a sleep also after the last attempt
ShouldRetry_AlsoAfterLast(tr, a, n) == tr /\ a < n

\* line 210 without the classification: every failure is retried
ShouldRetry_AnyFailure(tr, a, n) == a < n - 1

\* if is_transient and attempt < max_retries - 1   (line 210)
ShouldRetry(tr, a, n) == tr /\ a < n - 1

\* the messages of the exceptions: "Rate limit", "Overloaded", "bad key",
\* "generate", "overload" and the empty message
MsgRateLimit == <<"R", "a", "t", "e", " ", "l", "i", "m", "i", "t">>
MsgOverloaded == <<"O", "v", "e", "r", "l", "o", "a", "d", "e", "d">>
MsgBadKey == <<"b", "a", "d", " ", "k", "e", "y">>
MsgGenerate == <<"g", "e", "n", "e", "r", "a", "t", "e">>
MsgOverload == <<"o", "v", "e", "r", "l", "o", "a", "d">>
Messages ==
    {MsgRateLimit, MsgOverloaded, MsgBadKey, MsgGenerate, MsgOverload, <<>>}

\* the exceptions func raises: status_code and status as the client
\* libraries set them (or not), and the message
Exceptions ==
    [status_code : {NoStatus, 400, 429, 500, 502, 503, 504, 529},
     status : {NoStatus, 404, 429},
     msg : Messages]

\* the values func returns
Values == {"reply a", "reply b"}

InitRetry ==
    /\ rounds = 1
    /\ auto_stop = FALSE
    /\ min_rounds = DefaultMinRounds
    /\ convergence_threshold = DefaultThreshold
    /\ dir_exists = FALSE
    /\ doc_file = EmptyDir
    /\ crit_file = EmptyDir
    /\ pc = "retry"
    /\ NoRun
    /\ NoScanInput
    /\ NoCompressInput
    /\ NoParseOutput
    /\ max_retries \in 0..MaxAttempts
    /\ attempt = 0
    /\ is_transient = FALSE
    /\ exc = NoException
    /\ retry_out = NoOutcome
    /\ sleeps = <<>>
    /\ invocations = 0
    /\ failures = 0
    /\ func_value = "None"
    /\ NoApi

\* for attempt in range(max_retries): return func()   (lines 201-203)
RetryReturn ==
    /\ pc = "retry"
    /\ attempt < max_retries
    /\ \E v \in Values :
          /\ func_value' = v
          /\ retry_out' = [kind |-> "value", value |-> v, exc |-> NoException]
    /\ invocations' = invocations + 1
    /\ pc' = "retry_returned"
    /\ UNCHANGED <<debateVars, raw, scanVars, compressVars, parse_out, check_out, jobVars, threadVars,
                   max_retries, attempt, is_transient, exc, sleeps, failures>>

\* func() raises e: classified, then slept and retried, or re-raised
\* (lines 204-215)
RetryFail ==
    /\ pc = "retry"
    /\ attempt < max_retries
    /\ \E e \in Exceptions :
          LET tr == ClassifyTransient(e)
          IN  /\ exc' = e
              /\ is_transient' = tr
              /\ IF ShouldRetry(tr, attempt, max_retries)
                 THEN /\ sleeps' = Append(sleeps, wait(attempt))
                      /\ attempt' = attempt + 1
                      /\ pc' = "retry"
                      /\ retry_out' = retry_out
                 ELSE /\ retry_out' = [kind |-> "raise", value |-> "None",
                                       exc |-> e]
                      /\ pc' = "retry_raised"
                      /\ UNCHANGED <<sleeps, attempt>>
    /\ invocations' = invocations + 1
    /\ failures' = failures + 1
    /\ UNCHANGED <<debateVars, raw, scanVars, compressVars, parse_out, check_out, jobVars, threadVars,
                   max_retries, func_value>>

\* range(max_retries) is over: the function ends without return, giving None
RetryFallThrough ==
    /\ pc = "retry"
    /\ attempt >= max_retries
    /\ retry_out' = [kind |-> "value", value |-> "None", exc |-> NoException]
    /\ pc' = "retry_fell_through"
    /\ UNCHANGED <<debateVars, raw, scanVars, compressVars, parse_out, check_out, jobVars, threadVars,
                   max_retries, attempt, is_transient, exc, sleeps,
                   invocations, failures, func_value>>

NextRetry ==
    \/ RetryReturn
    \/ RetryFail
    \/ RetryFallThrough

SpecRetry == InitRetry /\ [][NextRetry]_vars

\* ------------------------------------------------- api_server: one debate job
\* str(exc)
Str(e) == <<"message of", e>>

\* the return value of final_synthesis(text, full_log, ...)
Synthesis(t, log) == <<"synthesis of", t, log>>

\* a job is requested with the defaults of run_debate that the worker does
\* not pass (min_rounds, convergence_threshold)
InitJob ==
    /\ Init
    /\ min_rounds = DefaultMinRounds

\* POST /api/debate: the entry is put into _jobs and the worker thread started
\* (api_server.py lines 161-173)
start_debate ==
    /\ pc = "idle"
    /\ ~HasJob
    /\ job' = NewJob
    /\ UNCHANGED <<debateVars, raw, pc, auxVars, caught, synth_calls>>

\* the worker calls run_debate on its fresh temporary directory with
\* resume=False (lines 116-136)
JobRunDebate ==
    /\ HasJob
    /\ pc = "idle"
    /\ run = 0
    /\ StartRun
    /\ resume' = FALSE

\* leaving the with block: the temporary directory is removed
RemoveTmpdir ==
    /\ dir_exists' = FALSE
    /\ doc_file' = EmptyDir
    /\ crit_file' = EmptyDir

jobFrame == <<cfgVars, resume, run, r, i, start_round, text, full_log,
              doc_before_round, critique_for_round, round_critiques, rounds_completed, pending,
              raw, result, calls, args, verdict, start_info, executed, completed,
              odd, auxVars>>

\* run_debate has returned: job["progress"] = "Finale Synthese..." (line 138)
JobProgressSynthesis ==
    /\ pc = "returned"
    /\ HasJob
    /\ job' = [job EXCEPT !.progress = Some("Finale Synthese...")]
    /\ pc' = "synthesis"
    /\ UNCHANGED <<jobFrame, dirVars, caught, synth_calls>>

\* final_synthesis returns (lines 139-141)
JobSynthesisReturn ==
    /\ pc = "synthesis"
    /\ synth_calls' = synth_calls + 1
    /\ RemoveTmpdir
    /\ pc' = "job_143"
    /\ UNCHANGED <<jobFrame, job, caught>>

\* final_synthesis raises: caught by the except of line 149
JobSynthesisRaise ==
    /\ pc = "synthesis"
    /\ synth_calls' = synth_calls + 1
    /\ caught' = Some(<<"synthesis", 0, 0>>)
    /\ RemoveTmpdir
    /\ pc' = "job_150"
    /\ UNCHANGED <<jobFrame, job>>

\* the worker without the try of line 109 around run_debate: after a raise it
\* goes on to the synthesis
JobCatch_Proceed ==
    /\ pc = "raised"
    /\ HasJob
    /\ caught' = Some(calls[Len(calls)])
    /\ pc' = "synthesis"
    /\ UNCHANGED <<jobFrame, dirVars, job, synth_calls>>

\* run_debate raised the exception of its last call: caught by the except of
\* line 149
JobCatch ==
    /\ pc = "raised"
    /\ HasJob
    /\ caught' = Some(calls[Len(calls)])
    /\ RemoveTmpdir
    /\ pc' = "job_150"
    /\ UNCHANGED <<jobFrame, job, synth_calls>>

\* lines 143-147, one assignment a step
JobDone ==
    /\ \/ /\ pc = "job_143"
          /\ job' = [job EXCEPT !.status = "done"]
          /\ pc' = "job_144"
       \/ /\ pc = "job_144"
          /\ job' = [job EXCEPT
                        !.result = Some(Synthesis(result.text, result.full_log))]
          /\ pc' = "job_145"
       \/ /\ pc = "job_145"
          /\ job' = [job EXCEPT
                        !.rounds_completed = Some(result.rounds_completed)]
          /\ pc' = "job_146"
       \/ /\ pc = "job_146"
          /\ job' = [job EXCEPT !.stop_reason =
                        IF result.stop_reason = NoneReason THEN None
                        ELSE Some(result.stop_reason)]
          /\ pc' = "job_147"
       \/ /\ pc = "job_147"
          /\ job' = [job EXCEPT !.progress = None]
          /\ pc' = "job_end"
    /\ UNCHANGED <<jobFrame, dirVars, caught, synth_calls>>

\* lines 150-152, one assignment a step
JobError ==
    /\ \/ /\ pc = "job_150"
          /\ job' = [job EXCEPT !.status = "error"]
          /\ pc' = "job_151"
       \/ /\ pc = "job_151"
          /\ job' = [job EXCEPT !.error = Some(Str(caught[1]))]
          /\ pc' = "job_152"
       \/ /\ pc = "job_152"
          /\ job' = [job EXCEPT !.progress = None]
          /\ pc' = "job_end"
    /\ UNCHANGED <<jobFrame, dirVars, caught, synth_calls>>

NextJob ==
    \/ start_debate
    \/ JobRunDebate
    \/ RoundStart
    \/ ReviewerCall
    \/ WriteCritique
    \/ ReviewerRaise
    \/ RoundEnd
    \/ JudgeReturn
    \/ JudgeRaise
    \/ LoopExit
    \/ JobProgressSynthesis
    \/ JobSynthesisReturn
    \/ JobSynthesisRaise
    \/ JobCatch
    \/ JobDone
    \/ JobError

SpecJob == InitJob /\ [][NextJob]_vars

\* the worker thread (started by thread.start(), line 173) keeps running and
\* every backend call ends: the thread takes its next step.  ReviewerCall is
\* left out as in SpecLive: at "reviewer" ReviewerRaise is enabled as well, and
\* either step leaves that position.
WorkerStep ==
    \/ JobRunDebate
    \/ LoopStep
    \/ ReviewerRaise
    \/ WriteCritique
    \/ RoundEnd
    \/ JudgeEnds
    \/ JobProgressSynthesis
    \/ JobSynthesisReturn
    \/ JobSynthesisRaise
    \/ JobCatch
    \/ JobDone
    \/ JobError

SpecJobLive == InitJob /\ [][NextJob]_vars /\ WF_vars(WorkerStep)

\* ------------------------------------------- the MCP tools (mcp_server.py)
\* rounds = max(1, min(6, rounds))   (mcp_server.py line 89)
ClampRounds(n) == IF n < 1 THEN 1 ELSE IF n > 6 THEN 6 ELSE n

\* the arguments debate hands to run_debate: the clamped rounds, auto_stop, and
\* no min_rounds (the default 2).  debate_quick is debate(rounds=2,
\* auto_stop=True) (line 136).
InitMcp ==
    /\ Init
    /\ rounds \in {ClampRounds(n) : n \in 0..MaxRounds}
    /\ min_rounds = DefaultMinRounds

debate_quick == rounds = 2 /\ auto_stop

\* the tool calls run_debate on its fresh temporary directory with
\* resume=False (lines 97-110)
McpRunDebate ==
    /\ pc = "idle"
    /\ run = 0
    /\ StartRun
    /\ resume' = FALSE

\* run_debate has returned; final_synthesis returns, the temporary directory
\* is removed and the tool returns the header and the result (lines 112-120)
McpSynthesisReturn ==
    /\ pc = "returned"
    /\ synth_calls' = synth_calls + 1
    /\ RemoveTmpdir
    /\ pc' = "mcp_returned"
    /\ UNCHANGED <<jobFrame, job, caught>>

\* final_synthesis raises: the exception leaves the tool
McpSynthesisRaise ==
    /\ pc = "returned"
    /\ synth_calls' = synth_calls + 1
    /\ caught' = Some(<<"synthesis", 0, 0>>)
    /\ RemoveTmpdir
    /\ pc' = "mcp_raised"
    /\ UNCHANGED <<jobFrame, job>>

\* run_debate raised: the exception leaves the with block and the tool
McpRaise ==
    /\ pc = "raised"
    /\ caught' = Some(calls[Len(calls)])
    /\ RemoveTmpdir
    /\ pc' = "mcp_raised"
    /\ UNCHANGED <<jobFrame, job, synth_calls>>

NextMcp ==
    \/ McpRunDebate
    \/ RoundStart
    \/ ReviewerCall
    \/ WriteCritique
    \/ ReviewerRaise
    \/ RoundEnd
    \/ JudgeReturn
    \/ JudgeRaise
    \/ LoopExit
    \/ McpSynthesisReturn
    \/ McpSynthesisRaise
    \/ McpRaise

SpecMcp == InitMcp /\ [][NextMcp]_vars

\* GET /api/debate/{job_id} (api_server.py lines 182-197): 404 for an unknown
\* id, else the fields of the entry as the worker has left them so far.  The
\* handler takes no lock and changes nothing, so a request can be answered in
\* every state of the job.
get_debate_status ==
    IF ~HasJob
    THEN [status_code |-> 404, status |-> "absent", progress |-> None,
          result |-> None, rounds_completed |-> None, stop_reason |-> None,
          error |-> None]
    ELSE [status_code |-> 200, status |-> job.status, progress |-> job.progress,
          result |-> job.result, rounds_completed |-> job.rounds_completed,
          stop_reason |-> job.stop_reason, error |-> job.error]

\* ------------------------------------------ api_server: concurrent debate jobs
\* Each request starts a thread that runs _run_debate_job; the threads are
\* interleaved at the reads and writes of what they share.  A thread is
\* followed through the first round of run_debate.

\* the global that the call function of a step reads through get_claude,
\* get_perplexity or get_openai
ClientOf(name) ==
    CASE name = "Claude" -> "_claude_client"
      [] name = "Perplexity" -> "_perplexity_client"
      [] name = "ChatGPT" -> "_openai_client"

\* the global of the step thread t is at
ClientAt(t) == ClientOf(steps[th[t].step + 1])

InitClients ==
    /\ rounds = 1
    /\ auto_stop = FALSE
    /\ min_rounds = DefaultMinRounds
    /\ convergence_threshold = DefaultThreshold
    /\ dir_exists = FALSE
    /\ doc_file = EmptyDir
    /\ crit_file = EmptyDir
    /\ pc = "threads"
    /\ NoRun
    /\ NoScanInput
    /\ NoCompressInput
    /\ NoParseOutput
    /\ NoRetry
    /\ NoApi

threadFrame == <<debateVars, raw, pc, scanVars, compressVars, parse_out,
                 check_out,
                 retryVars, jobVars>>

\* console.print(...): the text goes to the one StringIO of the one Console
ConsolePrint(t) ==
    /\ console_file' = Append(console_file, t)
    /\ writers' = [writers EXCEPT !["console"] = @ \cup {t}]

\* POST /api/debate: _jobs[job_id] = {...} under a fresh job_id, and the thread
\* is started
StartThread(t) ==
    /\ th[t].pc = "start"
    /\ jobs' = [jobs EXCEPT ![t] = "running"]
    /\ th' = [th EXCEPT ![t].pc = "tmpdir"]
    /\ UNCHANGED <<threadFrame, clients, console_file, files, readers, writers>>

\* tempfile.TemporaryDirectory(prefix="msc_api_"): a directory that does not
\* exist yet
MakeTmpdir(t) ==
    /\ th[t].pc = "tmpdir"
    /\ \E d \in 1..MaxThreads :
          /\ \A u \in Threads : th[u].tmpdir # d
          /\ th' = [th EXCEPT ![t].tmpdir = d, ![t].pc = "panel"]
    /\ UNCHANGED <<threadFrame, clients, console_file, jobs, files, readers,
                   writers>>

\* run_debate, line 441: console.print(Panel("Runde r/rounds"))
PrintPanel(t) ==
    /\ th[t].pc = "panel"
    /\ ConsolePrint(t)
    /\ th' = [th EXCEPT ![t].pc = "get"]
    /\ UNCHANGED <<threadFrame, clients, jobs, files, readers>>

\* get_claude / get_perplexity / get_openai: if _client is None
GetCheck(t) ==
    /\ th[t].pc = "get"
    /\ readers' = [readers EXCEPT ![ClientAt(t)] = @ \cup {t}]
    /\ th' = [th EXCEPT ![t].pc = IF clients[ClientAt(t)] = None
                                  THEN "construct" ELSE "return"]
    /\ UNCHANGED <<threadFrame, clients, console_file, jobs, files, writers>>

\* _client = Anthropic(...) / OpenAI(...)
GetConstruct(t) ==
    /\ th[t].pc = "construct"
    /\ clients' = [clients EXCEPT ![ClientAt(t)] = Some(t)]
    /\ writers' = [writers EXCEPT ![ClientAt(t)] = @ \cup {t}]
    /\ th' = [th EXCEPT ![t].pc = "return"]
    /\ UNCHANGED <<threadFrame, console_file, jobs, files, readers>>

\* return _client
GetReturn(t) ==
    /\ th[t].pc = "return"
    /\ readers' = [readers EXCEPT ![ClientAt(t)] = @ \cup {t}]
    /\ th' = [th EXCEPT ![t].handle = clients[ClientAt(t)], ![t].pc = "call"]
    /\ UNCHANGED <<threadFrame, clients, console_file, jobs, files, writers>>

\* the request is made on the handle and the reply parsed (lines 457-459)
ThreadCall(t) ==
    /\ th[t].pc = "call"
    /\ th[t].handle # None
    /\ th' = [th EXCEPT ![t].handle = None, ![t].pc = "save"]
    /\ UNCHANGED <<threadFrame, clients, console_file, jobs, files, readers,
                   writers>>

\* save_intermediate(output_dir, r, name.lower(), doc, critique)
ThreadSave(t) ==
    /\ th[t].pc = "save"
    /\ files' = files \cup {[dir |-> th[t].tmpdir, step |-> th[t].step,
                              by |-> t]}
    /\ th' = [th EXCEPT ![t].pc = "fertig"]
    /\ UNCHANGED <<threadFrame, clients, console_file, jobs, readers, writers>>

\* line 474: console.print("name fertig"), then the next step of the round
PrintFertig(t) ==
    /\ th[t].pc = "fertig"
    /\ ConsolePrint(t)
    /\ th' = [th EXCEPT ![t].step = IF @ < Len(steps) - 1 THEN @ + 1 ELSE @,
                        ![t].pc = IF th[t].step < Len(steps) - 1
                                  THEN "get" ELSE "finish"]
    /\ UNCHANGED <<threadFrame, clients, jobs, files, readers>>

\* the with block is left, the directory removed, and job["status"] = "done"
FinishThread(t) ==
    /\ th[t].pc = "finish"
    /\ files' = {f \in files : f.dir # th[t].tmpdir}
    /\ jobs' = [jobs EXCEPT ![t] = "done"]
    /\ th' = [th EXCEPT ![t].pc = "end"]
    /\ UNCHANGED <<threadFrame, clients, console_file, readers, writers>>

NextClients ==
    \/ \E t \in Threads : StartThread(t)
    \/ \E t \in Threads : MakeTmpdir(t)
    \/ \E t \in Threads : PrintPanel(t)
    \/ \E t \in Threads : GetCheck(t)
    \/ \E t \in Threads : GetConstruct(t)
    \/ \E t \in Threads : GetReturn(t)
    \/ \E t \in Threads : ThreadCall(t)
    \/ \E t \in Threads : ThreadSave(t)
    \/ \E t \in Threads : PrintFertig(t)
    \/ \E t \in Threads : FinishThread(t)

SpecClients == InitClients /\ [][NextClients]_vars

\* ------------------------------------------------------------ claims on Spec
IsJudge(e) == e[1] = "judge"
IsReviewer(e) == e[1] = "reviewer"
CellDoc(rr, k) == doc_file[<<rr, systems[k + 1]>>]
CellCrit(rr, k) == crit_file[<<rr, systems[k + 1]>>]

\* C1: in every execution of run_debate (fresh or resumed) each invocation of
\* the convergence judge comes directly after the calls of all three
\* reviewers of a round jr, with auto_stop set, jr >= min_rounds and
\* jr < rounds; so never after the final round, never with rounds = 1 and
\* never with auto_stop false.
C1_JudgeOnlyBetweenRounds ==
    /\ \A k \in 1..Len(calls) : IsJudge(calls[k]) =>
          LET jr == calls[k][2]
          IN  /\ auto_stop
              /\ jr >= min_rounds
              /\ jr < rounds
              /\ k > 3
              /\ calls[k - 3] = <<"reviewer", jr, 0>>
              /\ calls[k - 2] = <<"reviewer", jr, 1>>
              /\ calls[k - 1] = <<"reviewer", jr, 2>>
    /\ pc = "judge" => Len(calls) > 0 /\ calls[Len(calls)] = <<"judge", r, 0>>
    /\ (rounds = 1 \/ ~auto_stop) => \A k \in 1..Len(calls) : ~IsJudge(calls[k])

\* the judge is being invoked after round 2 of a resumed run, after it was
\* not invoked after round 1
C1_Witness ==
    /\ pc = "judge"
    /\ r = 2
    /\ start_info.taken
    /\ \A k \in 1..(Len(calls) - 1) : ~IsJudge(calls[k])

\* C2: whenever the judge, asked after round r, returns should_stop with
\* confidence >= convergence_threshold, run_debate returns at once with
\* rounds_completed = r, stop_reason = the judge's reason and the document
\* of round r's last reviewer; otherwise the run goes on with round r + 1.
C2_StopVerdictReturns ==
    verdict.set =>
        IF verdict.stop /\ verdict.confidence >= convergence_threshold
        THEN /\ pc = "returned"
             /\ result.set
             /\ result.rounds_completed = verdict.round
             /\ result.stop_reason = verdict.reason
             /\ result.text = CellDoc(verdict.round, 2).content
        ELSE /\ pc = "loop"
             /\ r = verdict.round + 1

\* C3: an execution of run_debate that ends without a convergence stop
\* returns rounds_completed = rounds and stop_reason None, also a resumed
\* run whose checkpoints already cover all rounds.
C3_AllRoundsResult ==
    (pc = "returned" /\ result.set /\ ~verdict.stopped) =>
        /\ result.rounds_completed = rounds
        /\ result.stop_reason = NoneReason

\* C4: a run resumed from checkpoints that end in the middle of round r
\* (first missing cell (r, i), 0 < i <= 2) calls reviewer i of round r first,
\* and no cell is executed twice across the interrupted and the resumed run.
C4_ResumeSkipsCompleted ==
    (start_info.taken /\ start_info.gap_step > 0) =>
        /\ Len(calls) > 0 =>
              calls[1] = <<"reviewer", start_info.gap_round, start_info.gap_step>>
        /\ \A c \in CellIdx : executed[c] <= 1

\* C7: run_debate resumed on a directory that holds both files of every cell
\* of rounds 1..rounds makes no reviewer call and no judge call.
C7_CompleteResumeNoCalls ==
    (run > 0 /\ start_info.resume /\ start_info.complete) => calls = <<>>

\* C8: a checkpoint record (document file and critique file) of a cell exists
\* iff the cell has completed in the run, and both files of a record were
\* written by the same reviewer call.
C8_RecordIffCompleted ==
    \A c \in CellIdx :
        /\ (CellDoc(c[1], c[2]).exists /\ CellCrit(c[1], c[2]).exists)
              <=> c \in completed
        /\ (CellDoc(c[1], c[2]).exists /\ CellCrit(c[1], c[2]).exists)
              => CellDoc(c[1], c[2]).by = CellCrit(c[1], c[2]).by

\* the reply has no valid marker pair: parse_structured_output falls back
Malformed(s) ==
    ~(re_search(s, TokDokument, TokKritikpunkte).found
      /\ re_search(s, TokKritikpunkte, TokEnde).found)

\* C13: a malformed reviewer reply never aborts run_debate: a reply that is
\* not well-formed leads to the checkpoint write, not out of the run; after
\* a reply without valid markers in cell (r, i) the document is the raw
\* reply (trimmed, as parse_structured_output returns it), a placeholder
\* entry is appended to the log, both files of (r, i) are written, and the
\* next reviewer, or the round-end step after the third, follows.
C13_MalformedReplyContinues ==
    [][/\ (pc = "reviewer" /\ odd' # odd) => pc' = "write_crit"
       /\ (pc = "reviewer" /\ pc' = "write_crit" /\ Malformed(raw')) =>
             /\ text' = Strip(raw')
             /\ full_log' = Append(full_log, Entry(r, steps[i + 1], Placeholder))
             /\ doc_file'[<<r, systems[i + 1]>>] =
                   [exists |-> TRUE, content |-> Strip(raw'), by |-> run]
             /\ r' = r
             /\ i' = i
       /\ (pc = "write_crit" /\ Malformed(raw) /\ pc' # "killed") =>
             /\ crit_file'[<<r, systems[i + 1]>>] =
                   [exists |-> TRUE, content |-> Placeholder, by |-> run]
             /\ doc_file' = doc_file
             /\ text' = text
             /\ full_log' = full_log
             /\ r' = r
             /\ IF i < 2 THEN pc' = "reviewer" /\ i' = i + 1
                ELSE pc' = "round_end"
      ]_vars

\* Perplexity is about to be called on the trimmed raw reply that Claude
\* gave without ---ENDE---, whose checkpoint holds the placeholder critique
C13_Witness ==
    /\ pc = "reviewer"
    /\ i = 1
    /\ Malformed(raw)
    /\ raw # EmptyText
    /\ text = Strip(raw)
    /\ text # raw
    /\ CellDoc(r, 0) = [exists |-> TRUE, content |-> text, by |-> run]
    /\ CellCrit(r, 0) = [exists |-> TRUE, content |-> Placeholder, by |-> run]

\* what call_convergence_check returns for a reply it can parse nothing of
UnparsedVerdict(v) ==
    /\ v.set
    /\ ~v.stop
    /\ v.confidence = DefaultConfidence
    /\ v.reason = "Keine Begruendung extrahiert."

\* C17: a failure of the convergence check after round r (the judge call
\* raising after its retries, or its reply being unparsable) never aborts
\* run_debate: the run goes on with round r + 1, and document, log,
\* checkpoints and result are as before the check.
C17_JudgeFailureContinues ==
    [][(pc = "judge" /\ pc' # "killed"
        /\ (verdict' = NoVerdict \/ UnparsedVerdict(verdict')))
       => /\ pc' = "loop"
          /\ r' = r + 1
          /\ text' = text
          /\ full_log' = full_log
          /\ doc_file' = doc_file
          /\ crit_file' = crit_file
          /\ result' = result
      ]_vars

\* the judge call after round r - 1 raised (the last call is a judge call
\* that left no verdict) and round r is about to begin with the document of
\* ChatGPT of round r - 1
C17_Witness ==
    /\ pc = "loop"
    /\ Len(calls) > 0
    /\ IsJudge(calls[Len(calls)])
    /\ verdict = NoVerdict
    /\ r = calls[Len(calls)][2] + 1
    /\ r <= rounds
    /\ text = CellDoc(r - 1, 2).content
    /\ Len(full_log) = 3 * (r - 1)

\* min(max(m, 1), rounds)
Clamp(m) == IF m < 1 THEN 1 ELSE IF m > rounds THEN rounds ELSE m

\* C18: min_rounds acts as if clamped to [1, rounds]: line 479, the only
\* place that reads min_rounds, decides at the end of every round as it
\* would with min(max(min_rounds, 1), rounds), so the calls made and the
\* result returned are those of the clamped value.
C18_MinRoundsClamped ==
    pc = "round_end" =>
        (ShouldCheckAt(min_rounds) <=> ShouldCheckAt(Clamp(min_rounds)))

\* round 1 of a run with auto_stop and min_rounds = 0 has ended: the judge
\* is asked, as with min_rounds = 1
C18_Witness ==
    /\ pc = "round_end"
    /\ auto_stop
    /\ min_rounds = 0
    /\ r = 1
    /\ rounds > 1
    /\ ShouldCheck

\* the indices of the reviewer calls made before call k of this execution
ReviewersBefore(k) == {j \in 1..(k - 1) : IsReviewer(calls[j])}
\* the cell after cell c in (round, reviewer) order
NextCell(c) ==
    IF c[3] < 2 THEN <<"reviewer", c[2], c[3] + 1>>
    ELSE <<"reviewer", c[2] + 1, 0>>

\* C23: within one execution of run_debate the reviewers are called one after
\* the other in the order Claude, Perplexity, ChatGPT, round after round: the
\* first call is Claude's, every later call is that of the next cell after
\* the reviewer call before it; and the document passed to a call is the
\* document parsed from the reviewer call before it (written to its file), or
\* the input text (fresh start) or the resumed document for the first call.
C23_SequentialHandOver ==
    \A k \in 1..Len(calls) : IsReviewer(calls[k]) =>
       IF ReviewersBefore(k) = {}
       THEN /\ calls[k][3] = 0
            /\ calls[k][2] = IF start_info.taken THEN start_info.gap_round ELSE 1
            /\ args[k].text = start_info.text
            /\ ~start_info.taken => args[k].text = InputText
       ELSE LET j == CHOOSE x \in ReviewersBefore(k) :
                        \A y \in ReviewersBefore(k) : x >= y
            IN  /\ calls[k] = NextCell(calls[j])
                /\ CellDoc(calls[j][2], calls[j][3]).by = run
                /\ args[k].text = CellDoc(calls[j][2], calls[j][3]).content

\* a resumed execution in round 2: Claude got the resumed document, which is
\* not the input text, Perplexity the document of Claude and, after a judge
\* call, Claude in round 3 the document of ChatGPT
C23_Witness ==
    /\ run = 2
    /\ start_info.taken
    /\ Len(calls) >= 5
    /\ calls[1] = <<"reviewer", 2, 0>>
    /\ args[1].text = start_info.text
    /\ args[1].text # InputText
    /\ calls[2] = <<"reviewer", 2, 1>>
    /\ args[2].text = CellDoc(2, 0).content
    /\ IsJudge(calls[4])
    /\ calls[5] = <<"reviewer", 3, 0>>
    /\ args[5].text = CellDoc(2, 2).content

\* inside round r: the reviewer calls of round r made so far, and the log as
\* it stood when the round began (every call made has appended its entry)
InRound == pc \in {"reviewer", "write_crit", "round_end", "judge"}
CallsOfRound == {k \in 1..Len(calls) : IsReviewer(calls[k]) /\ calls[k][2] = r}
LogAtRoundStart == SubSeq(full_log, 1, Len(full_log) - Cardinality(CallsOfRound))
HistoryOfRoundStart ==
    /\ Len(full_log) >= Cardinality(CallsOfRound)
    /\ \A k \in CallsOfRound :
          /\ args[k].critique = compress_full_log(LogAtRoundStart)
          /\ full_log[Len(full_log) - Cardinality(CallsOfRound) + calls[k][3] + 1]
                .round = r
    /\ (~start_info.taken /\ r = 1) =>
          \A k \in CallsOfRound : args[k].critique = <<>>

\* C24 as stated: all reviewers called in round r receive
\* compress_critique_log(full_log as it stood when round r began), which
\* holds no critique of round r, and in round 1 of a fresh run the empty
\* history.
C24_NoCritiqueOfOwnRound ==
    InRound =>
      /\ HistoryOfRoundStart
      /\ \A k \in CallsOfRound : \A j \in 1..Len(LogAtRoundStart) :
            LogAtRoundStart[j].round < r

\* C24, amended: all reviewers called in round r receive
\* compress_critique_log(full_log as it stood when round r began): none of
\* them sees a critique that this execution wrote in round r (a resumed log
\* can hold critiques of round r from the checkpoint), and in round 1 of a
\* fresh run every reviewer receives the empty history.
C24_HistoryOfRoundStart ==
    InRound => HistoryOfRoundStart

\* round 2 entered through a resume after Claude's cell of round 2: all three
\* reviewers got the same history, which holds the checkpointed critique of
\* round 2
C24_Witness ==
    /\ pc = "round_end"
    /\ r = 2
    /\ start_info.taken
    /\ start_info.gap_round = 2
    /\ start_info.gap_step = 1
    /\ Cardinality(CallsOfRound) = 3
    /\ Len(LogAtRoundStart) = 4
    /\ LogAtRoundStart[4].round = 2
    /\ \A k \in CallsOfRound : args[k].critique = compress_full_log(LogAtRoundStart)

\* C25: whenever the judge is invoked after round r, its doc_before is the
\* document as it stood before any reviewer of round r ran (the output of
\* round r - 1, the input text for r = 1), its doc_after the output of the
\* last reviewer of round r, and its critique holds the critiques of the three
\* reviewers of round r and of no other round, also when round r was entered
\* through a resume in the middle of the round.
C25_JudgeArguments ==
    pc = "judge" =>
      LET a == args[Len(args)]
      IN  /\ a.doc_before = IF r = 1 THEN InputText ELSE CellDoc(r - 1, 2).content
          /\ a.doc_after = CellDoc(r, 2).content
          /\ CellDoc(r, 2).by = run
          /\ Len(a.critique) = 3
          /\ \A k \in 1..3 :
                /\ a.critique[k].name = steps[k]
                /\ a.critique[k].critique = CellCrit(r, k - 1).content
                /\ CellCrit(r, k - 1).by = run

\* the positions inside run_debate, a prefix, the cell of a log entry
Running == {"loop", "reviewer", "write_crit", "round_end", "judge"}
IsPrefix(s, t) == Len(s) <= Len(t) /\ SubSeq(t, 1, Len(s)) = s
EntryCell(e) ==
    <<e.round, CHOOSE k \in 0..2 :
                  e.name \in {steps[k + 1], Capitalize(systems[k + 1])}>>
LogOrdered(log) ==
    \A j \in 1..Len(log) : \A k \in (j + 1)..Len(log) :
       Before(EntryCell(log[j]), EntryCell(log[k]))
LogGrowsByCalls ==
    pc' \in Running =>
      /\ IsPrefix(full_log, full_log')
      /\ (pc = "reviewer" /\ pc' = "write_crit")
            => /\ Len(full_log') = Len(full_log) + 1
               /\ full_log'[Len(full_log')].round = r
               /\ full_log'[Len(full_log')].name = steps[i + 1]
      /\ (pc \in Running /\ ~(pc = "reviewer" /\ pc' = "write_crit"))
            => full_log' = full_log

\* C26: the critique log is append-only in causal order: in every step of
\* run_debate the previous full_log is a prefix of the new one, each completed
\* reviewer call appends exactly one entry headed [Runde r - Reviewer], and at
\* every point of a run, fresh or resumed, the log holds exactly one entry per
\* completed (round, reviewer) cell, in (round, reviewer index) order.
C26_LogAppendOnlyOnePerCell ==
    [][LogGrowsByCalls /\ (pc' \in Running => LogOrdered(full_log'))]_vars

\* C29: with every backend call returning or raising, an execution of
\* run_debate that has been started comes to an end: it has returned (converged
\* or all rounds done) or raised, unless the process was interrupted from
\* outside; and at every moment the execution has made at most 3 * rounds
\* reviewer calls and at most rounds - 1 judge calls.
ReviewerCalls == {k \in 1..Len(calls) : IsReviewer(calls[k])}
JudgeCalls == {k \in 1..Len(calls) : IsJudge(calls[k])}
Ended == {"returned", "raised", "killed"}
CallsBounded ==
    /\ Cardinality(ReviewerCalls) <= 3 * rounds
    /\ Cardinality(JudgeCalls) <= rounds - 1
C29_RunDebateTerminates ==
    /\ [](CallsBounded)
    /\ (pc \in Running) ~> (pc \in Ended)
    /\ [](pc = "returned" => result.set /\ result.rounds_completed <= rounds)

\* a fresh run over all rounds with the judge asked after every round but the
\* last: both bounds are met exactly
C29_Witness ==
    /\ pc = "returned"
    /\ rounds = MaxRounds
    /\ result.stop_reason = NoneReason
    /\ Cardinality(ReviewerCalls) = 3 * rounds
    /\ Cardinality(JudgeCalls) = rounds - 1

\* both files of cell c = (round, index) exist
HasBoth(c) == CellDoc(c[1], c[2]).exists /\ CellCrit(c[1], c[2]).exists
HasNone(c) == ~CellDoc(c[1], c[2]).exists /\ ~CellCrit(c[1], c[2]).exists

\* the run has just completed a cell (both files written, lines 361-362): the
\* cell, and the call that executed it is the last call of the run
JustCompleted ==
    /\ \/ pc = "reviewer" /\ i > 0
       \/ pc = "round_end"
    /\ Len(calls) > 0
LastCell == IF pc = "round_end" THEN <<r, 2>> ELSE <<r, i - 1>>

\* C31: directly after run_debate has completed a cell, find_resume_point on
\* the checkpoint directory returns the document and the log that the run holds
\* in memory (text, full_log), entry headers included.
C31_CheckpointsReconstructState ==
    JustCompleted =>
        LET info == find_resume_point(doc_file, crit_file, rounds)
        IN  /\ info.text = text
            /\ info.log = full_log

\* C32: after every completed reviewer step of cell (r, i) the current document
\* is the document stored in the checkpoint of (r, i), the last log entry is
\* the entry of that cell with the critique stored in its checkpoint, and both
\* files exist for every cell the run has executed so far.
C32_StateMatchesCheckpoint ==
    JustCompleted =>
        /\ CellDoc(LastCell[1], LastCell[2]).exists
        /\ CellDoc(LastCell[1], LastCell[2]).content = text
        /\ Len(full_log) > 0
        /\ full_log[Len(full_log)] =
              Entry(LastCell[1], steps[LastCell[2] + 1],
                    CellCrit(LastCell[1], LastCell[2]).content)
        /\ CellCrit(LastCell[1], LastCell[2]).exists
        /\ \A k \in 1..Len(calls) :
              IsReviewer(calls[k]) => HasBoth(<<calls[k][2], calls[k][3]>>)

\* a resumed run has completed a cell after a reply without closing marker
C32_Witness ==
    /\ JustCompleted
    /\ run = 2
    /\ start_info.taken
    /\ odd > 0
    /\ CellCrit(LastCell[1], LastCell[2]).content = Placeholder
    /\ Len(calls) >= 2

\* row-major number 1.. of a cell and back
CellNo(c) == 3 * (c[1] - 1) + c[2] + 1
CellAt(n) == <<((n - 1) \div 3) + 1, (n - 1) % 3>>

\* the cell before c in the order of the loops, and its document (the empty
\* text before the first cell)
PrevDoc(c) ==
    IF c = <<1, 0>> THEN EmptyText
    ELSE LET p == CellAt(CellNo(c) - 1) IN CellDoc(p[1], p[2]).content

\* the step in which the reviewer call of cell (r, i) raises
RaisesAtCell == pc = "reviewer" /\ pc' = "raised"

\* the files after the step are the files before it, and find_resume_point on
\* them returns round r with the document of the cell before (r, i)
StoreLeftForResume ==
    /\ UNCHANGED dirVars
    /\ LET info == find_resume_point(doc_file', crit_file', rounds)
       IN  /\ info.round = r
           /\ info.text = PrevDoc(<<r, i>>)

\* C33: a fatal failure of the reviewer call of cell (r, i) leaves the
\* checkpoint files as they are, and find_resume_point then returns round r
\* with the document of the last cell completed before (r, i).
C33_FailedCellLeavesStore == [][RaisesAtCell => StoreLeftForResume]_vars

\* C34: whenever the try block of the convergence check of round r ends
\* without the stop being taken (the verdict was not a stop, or the
\* on_convergence callback raised, also after a STOP verdict with confidence
\* at or above the threshold), run_debate does not abort: it goes on with
\* round r + 1, document, log, files and result as they were.
C34_CallbackFailureSwallowed ==
    [][(pc = "judge" /\ verdict'.set /\ ~verdict'.stopped)
       => /\ pc' = "loop"
          /\ r' = r + 1
          /\ text' = text
          /\ full_log' = full_log
          /\ result' = result
          /\ UNCHANGED dirVars
      ]_vars

\* the judge said STOP with confidence at or above the threshold, the
\* callback raised, and the run is at the head of the next round
C34_Witness ==
    /\ pc = "loop"
    /\ verdict.set
    /\ StopDecision(verdict.stop, verdict.confidence)
    /\ ~verdict.stopped
    /\ r = verdict.round + 1
    /\ ~result.set

\* run_debate has returned converged after round verdict.round, before the last
\* round, and is invoked again with resume = true (same directory and rounds)
ResumedAfterConvergence ==
    /\ pc = "returned"
    /\ verdict.stopped
    /\ verdict.round < rounds
    /\ pc' = "loop"
    /\ resume'

\* the new run does not return the converged result: it starts at the round
\* after the stop with the document and the log of the checkpoints, and its
\* loop runs
ResumesAtNextRound ==
    /\ result' = NoResult
    /\ start_info'.taken
    /\ start_round' = verdict.round + 1
    /\ r' = verdict.round + 1
    /\ r' <= rounds
    /\ start_info'.gap_round = verdict.round + 1
    /\ start_info'.gap_step = 0

\* a run resumed at the head of a round calls the first reviewer of that round
\* first
FirstCallOfResumedRound ==
    (start_info.taken /\ start_info.gap_step = 0 /\ Len(calls) > 0)
        => calls[1] = <<"reviewer", start_info.gap_round, 0>>

NoLaterRound(rr) ==
    \A c \in CellIdx : c[1] > rr => HasNone(c)

StartsWithoutResumePoint ==
    /\ pc \in {"idle", "returned", "raised", "killed"}
    /\ pc' = "loop"
    /\ resume'
    /\ \/ ~dir_exists
       \/ ~HasBoth(<<1, 0>>)
       \/ find_resume_point(doc_file, crit_file, rounds).text = EmptyText

\* the run starts as a fresh one
StartsFresh ==
    /\ ~start_info'.taken
    /\ start_round' = 1
    /\ r' = 1
    /\ text' = InputText
    /\ full_log' = <<>>

\* a run that did not take a resume point calls the reviewer of cell (1, 0)
\* first, and has called every cell when it returns after the last round
FreshRunExecutesAll ==
    (run > 0 /\ ~start_info.taken) =>
        /\ Len(calls) > 0 => calls[1] = <<"reviewer", 1, 0>>
        /\ (pc = "returned" /\ ~verdict.stopped) =>
              \A c \in CellIdx : c[1] <= rounds =>
                  \E k \in 1..Len(calls) : calls[k] = <<"reviewer", c[1], c[2]>>

RoundsComplete(k) == \A c \in ScanIdx : c[1] <= k => HasBoth(c)
RoundAbsent(k) == \A c \in ScanIdx : c[1] = k => HasNone(c)

\* C5: on a directory with both files of all three cells of rounds 1..k and
\* no file of round k + 1 (1 <= k < total_rounds) find_resume_point returns
\* round k + 1, the document stored for (k, chatgpt) and a log holding the
\* critiques of the 3k cells in (round, reviewer) order.
C5_ResumeAfterCompleteRounds ==
    pc = "scanned" =>
        \A k \in 1..(scan_rounds - 1) :
            (RoundsComplete(k) /\ RoundAbsent(k + 1)) =>
                /\ scan_out.round = k + 1
                /\ scan_out.text = doc_file[<<k, "chatgpt">>].content
                /\ Len(scan_out.log) = 3 * k
                /\ \A n \in 1..(3 * k) :
                      /\ scan_out.log[n].round = CellAt(n)[1]
                      /\ scan_out.log[n].critique =
                            CellCrit(CellAt(n)[1], CellAt(n)[2]).content

\* round 1 complete, round 2 absent, scanned with total_rounds = 2
C5_Witness ==
    /\ pc = "scanned"
    /\ scan_rounds = 2
    /\ RoundsComplete(1)
    /\ RoundAbsent(2)
    /\ scan_out.round = 2

\* number of cells of the contiguous prefix of complete cells, within rounds
\* 1..n
PrefixLen(n) ==
    Cardinality({c \in ScanIdx :
        /\ c[1] <= n
        /\ \A d \in ScanIdx : CellNo(d) <= CellNo(c) => HasBoth(d)})

\* C6: find_resume_point uses only the contiguous prefix of complete cells:
\* the returned log holds exactly the prefix, the document is that of the
\* last prefix cell, the round is that of the first cell that lacks a file,
\* whatever files exist after it.
C6_OnlyContiguousPrefix ==
    pc = "scanned" =>
        LET g == PrefixLen(scan_rounds)
        IN  /\ Len(scan_out.log) = g
            /\ \A n \in 1..g :
                  scan_out.log[n] =
                      Entry(CellAt(n)[1], Capitalize(systems[CellAt(n)[2] + 1]),
                            CellCrit(CellAt(n)[1], CellAt(n)[2]).content)
            /\ scan_out.text =
                  IF g = 0 THEN EmptyText
                  ELSE CellDoc(CellAt(g)[1], CellAt(g)[2]).content
            /\ scan_out.round =
                  IF g = 0 THEN 1
                  ELSE IF g = 3 * scan_rounds THEN scan_rounds + 1
                  ELSE CellAt(g + 1)[1]

\* the critique file of (1, perplexity) is missing while its document file
\* and both files of the later cells (1, chatgpt) and (2, claude) exist
C6_Witness ==
    /\ pc = "scanned"
    /\ scan_rounds = 2
    /\ HasBoth(<<1, 0>>)
    /\ CellDoc(1, 1).exists
    /\ ~CellCrit(1, 1).exists
    /\ HasBoth(<<1, 2>>)
    /\ HasBoth(<<2, 0>>)
    /\ scan_out.round = 1
    /\ Len(scan_out.log) = 1

\* ---------------------------------------------------- claims on SpecCompress
\* C9: compress_critique_log never drops a line containing [DISSENS]: each
\* such line of the input is a complete line of the output, for every
\* max_chars.
C9_DissensNeverDropped ==
    pc = "compressed" =>
        LET inl == Split(log_in)
            outl == Split(log_out)
        IN  \A k \in 1..Len(inl) :
                IsDissens(inl[k]) => \E m \in 1..Len(outl) : outl[m] = inl[k]

\* C10: a log of at most max_chars characters is returned unchanged, hence
\* compressing the result again changes nothing.
C10_ShortLogUnchanged ==
    (pc = "compressed" /\ Len(log_in) <= max_chars) =>
        /\ log_out = log_in
        /\ compress_critique_log(log_out, max_chars) = log_out

\* a log of exactly max_chars characters with a line the compression drops
C10_Witness ==
    /\ pc = "compressed"
    /\ Len(log_in) = max_chars
    /\ \E k \in 1..Len(Split(log_in)) : Split(log_in)[k] = LinePlain
    /\ log_out = log_in

\* the lines of a log at the indices of a set, in their order
RECURSIVE LinesAt(_, _)
LinesAt(lines, idx) ==
    IF idx = {} THEN <<>>
    ELSE LET k == CHOOSE x \in idx : \A y \in idx : x <= y
         IN  <<lines[k]>> \o LinesAt(lines, idx \ {k})
\* what the compression keeps of a log: the lines that start with "[Runde",
\* then the lines that contain [DISSENS], then the first ten of the lines that
\* start with "- [" and do not contain [DISSENS]
KeptLines(log) ==
    LET lines == Split(log)
        n == Len(lines)
        hs == {k \in 1..n : StartsWith(lines[k], RundePrefix)}
        ds == {k \in 1..n : Contains(lines[k], DissensMarker)}
        os == {k \in 1..n : /\ StartsWith(lines[k], BulletPrefix)
                             /\ ~Contains(lines[k], DissensMarker)}
        first == {k \in os : Cardinality({j \in os : j <= k}) <= 10}
    IN  LinesAt(lines, hs) \o LinesAt(lines, ds) \o LinesAt(lines, first)

\* C27: for a log longer than max_chars the output of compress_critique_log
\* is, before truncation, the lines starting with "[Runde" in their order,
\* then the lines containing [DISSENS] in their order, then at most the
\* first 10 lines that start with "- [" and do not contain [DISSENS] in their
\* order; every other line is dropped.
C27_KeptLinesInGroups ==
    (pc = "compressed" /\ Len(log_in) > max_chars) =>
        LET kept == Join(KeptLines(log_in))
        IN  IF Len(kept) <= max_chars
            THEN log_out = kept
            ELSE Take(log_out, max_chars) = Take(kept, max_chars)

\* a log of more than ten bullet lines followed by a header: the output,
\* not truncated, is the header and the first ten bullet lines
C27_Witness ==
    /\ pc = "compressed"
    /\ Len(log_in) > max_chars
    /\ Len(log_out) <= max_chars
    /\ Len(SelectSeq(Split(log_in), IsOther)) > OtherKept
    /\ IsHeader(Split(log_in)[Len(Split(log_in))])
    /\ Len(Split(log_out)) = OtherKept + 1
    /\ IsHeader(Split(log_out)[1])
    /\ \A k \in 1..OtherKept : Split(log_out)[k + 1] = Split(log_in)[k]

\* C28: the compressed log is bounded: for every log and every max_chars the
\* length of compress_critique_log(log, max_chars) is at most max_chars.
C28_OutputWithinMaxChars ==
    pc = "compressed" => Len(log_out) <= max_chars

\* ------------------------------------------------------- claims on SpecParse
MarkerAt(m) == {k \in 1..Len(raw) : raw[k] = m}
\* the marker at position p is followed, after blanks only, by a line break
LineBreakAfter(p) ==
    \E q \in (p + 1)..Len(raw) :
        /\ raw[q] = TokNewline
        /\ \A j \in (p + 1)..(q - 1) : IsSpace(raw[j])
\* s.strip() of the text strictly between positions a and b
Between(a, b) == Strip(SubSeq(raw, a + 1, b - 1))
First(S) == CHOOSE x \in S : \A y \in S : x <= y

\* C11 as stated: for every reply that contains the three markers
\* ---DOKUMENT---, ---KRITIKPUNKTE--- and ---ENDE--- in that order,
\* parse_structured_output returns the trimmed text between ---DOKUMENT---
\* and ---KRITIKPUNKTE--- as document and the trimmed text between
\* ---KRITIKPUNKTE--- and ---ENDE--- as critique.
C11_SectionsOfOrderedMarkers ==
    (pc = "parsed"
     /\ \E d \in MarkerAt(TokDokument), k \in MarkerAt(TokKritikpunkte),
           e \in MarkerAt(TokEnde) : d < k /\ k < e)
    => \E d \in MarkerAt(TokDokument), k \in MarkerAt(TokKritikpunkte),
          k2 \in MarkerAt(TokKritikpunkte), e \in MarkerAt(TokEnde) :
          /\ d < k
          /\ k2 < e
          /\ parse_out = <<Between(d, k), Between(k2, e)>>

\* C11 amended: for every reply that contains the three markers in that
\* order with ---DOKUMENT--- and ---KRITIKPUNKTE--- each followed, after
\* optional whitespace, by a line break, the document is the trimmed text
\* between the first such ---DOKUMENT--- and the next ---KRITIKPUNKTE---, and
\* the critique is the trimmed text between the first such
\* ---KRITIKPUNKTE--- and the next ---ENDE---.
C11_SectionsOfMarkerLines ==
    LET ds == {d \in MarkerAt(TokDokument) : LineBreakAfter(d)}
        ks == {k \in MarkerAt(TokKritikpunkte) : LineBreakAfter(k)}
    IN  (pc = "parsed"
         /\ \E d \in ds, k \in ks, e \in MarkerAt(TokEnde) : d < k /\ k < e)
        => LET d0 == First(ds)
               k0 == First({k \in MarkerAt(TokKritikpunkte) : k > d0})
               k1 == First(ks)
               e1 == First({e \in MarkerAt(TokEnde) : e > k1})
           IN  parse_out = <<Between(d0, k0), Between(k1, e1)>>

\* a reply with a ---DOKUMENT--- that has text on its line before the one
\* that opens the document section, parsed into a non-empty document
C11_Witness ==
    /\ pc = "parsed"
    /\ Len(raw) = MaxReplyLen
    /\ raw[1] = TokDokument
    /\ ~LineBreakAfter(1)
    /\ \E d \in MarkerAt(TokDokument), k \in MarkerAt(TokKritikpunkte),
          e \in MarkerAt(TokEnde) :
          d < k /\ k < e /\ LineBreakAfter(d) /\ LineBreakAfter(k)
    /\ parse_out[2] # Placeholder

\* C12: for every reply in which one of the three markers is missing,
\* parse_structured_output returns (the reply trimmed of surrounding
\* whitespace, the fixed placeholder critique); it raises nothing.
C12_MissingMarkerFallback ==
    (pc = "parsed"
     /\ (MarkerAt(TokDokument) = {} \/ MarkerAt(TokKritikpunkte) = {}
         \/ MarkerAt(TokEnde) = {}))
    => parse_out = <<Strip(raw), Placeholder>>

\* a reply with a complete document section but no ---ENDE---, and with
\* whitespace around it that the fallback trims
C12_Witness ==
    /\ pc = "parsed"
    /\ MarkerAt(TokEnde) = {}
    /\ \E d \in MarkerAt(TokDokument), k \in MarkerAt(TokKritikpunkte) :
          d < k /\ LineBreakAfter(d) /\ LineBreakAfter(k)
    /\ IsSpace(raw[1])
    /\ parse_out = <<Strip(raw), Placeholder>>
    /\ parse_out[1] # raw

\* ------------------------------------------------------- claims on SpecRetry
\* the classification the claims state: the status (status_code, else
\* status) is one of the five, or the message holds "rate" or "overloaded"
\* in any case
StatedTransient(e) ==
    \/ (IF e.status_code # NoStatus THEN e.status_code ELSE e.status)
           \in {429, 500, 502, 503, 529}
    \/ e.msg \in {MsgRateLimit, MsgOverloaded, MsgGenerate}

\* C14: when func fails transiently k times (k < max_retries) and then
\* succeeds, _retry returns the value of the successful call after exactly
\* k + 1 invocations and exactly k sleeps, the j-th of them (j = 1..k) of
\* 2^j seconds: 2, 4, ...
C14_BackoffThenSuccess ==
    pc = "retry_returned" =>
        /\ failures < max_retries
        /\ invocations = failures + 1
        /\ Len(sleeps) = failures
        /\ \A j \in 1..Len(sleeps) : sleeps[j] = 2 ^ j
        /\ retry_out = [kind |-> "value", value |-> func_value,
                        exc |-> NoException]
        /\ func_value \in Values

\* two transient failures, then success on the third attempt of three
C14_Witness ==
    /\ pc = "retry_returned"
    /\ max_retries = 3
    /\ failures = 2
    /\ invocations = 3
    /\ sleeps = <<2, 4>>

\* C15: when func raises a non-transient failure on any attempt, _retry
\* re-raises that failure at once: it sleeps no more and does not invoke func
\* again.
C15_NonTransientRaisedAtOnce ==
    (failures > 0 /\ ~StatedTransient(exc)) =>
        /\ pc = "retry_raised"
        /\ retry_out = [kind |-> "raise", value |-> "None", exc |-> exc]
        /\ invocations = failures
        /\ Len(sleeps) = failures - 1

\* a bad-key failure on the second attempt of three, after one retry
C15_Witness ==
    /\ pc = "retry_raised"
    /\ max_retries = 3
    /\ failures = 2
    /\ exc.msg = MsgBadKey
    /\ exc.status_code = 400
    /\ sleeps = <<2>>
    /\ retry_out.exc = exc

\* C16: _retry classifies a failure as transient exactly when its status
\* (status_code, else status) is one of 429, 500, 502, 503, 529 or its
\* message contains "rate" or "overloaded" in any case.
C16_TransientClassification ==
    failures > 0 => (is_transient <=> StatedTransient(exc))

\* a failure without status whose message "Overloaded" has a capital, seen
\* as transient; its status attribute is consulted as status_code is None
C16_Witness ==
    /\ failures > 0
    /\ exc.status_code = NoStatus
    /\ exc.status = 404
    /\ exc.msg = MsgOverloaded
    /\ is_transient

\* --------------------------------------------------------- claims on SpecJob
\* C19: a reviewer call that fails (non-transiently, or transiently on all
\* attempts) aborts the run: the exception leaves run_debate, no reviewer,
\* judge or synthesis call follows, and the job worker sets the status of the
\* job to "error" and its error to the message of that exception.
C19_ReviewerFailureFailsJob ==
    [][/\ (pc = "reviewer" /\ Len(calls') > Len(calls) /\ executed' = executed)
             => pc' = "raised"
       /\ pc = "raised"
             => /\ pc' = "job_150"
                /\ IsReviewer(calls[Len(calls)])
                /\ caught' = Some(calls[Len(calls)])
       /\ (pc \in {"raised", "job_150", "job_151", "job_152", "job_end"}
           /\ synth_calls = 0)
             => /\ calls' = calls
                /\ synth_calls' = 0
                /\ pc' \in {"job_150", "job_151", "job_152", "job_end"}
       /\ (pc = "job_152" /\ synth_calls = 0)
             => /\ pc' = "job_end"
                /\ job'.status = "error"
                /\ job'.error = Some(Str(calls[Len(calls)]))
                /\ job'.result = None
      ]_vars

\* the job has ended after Perplexity's call of round 2 failed: status
\* "error", the message of that exception, no synthesis
C19_Witness ==
    /\ pc = "job_end"
    /\ job.status = "error"
    /\ job.error = Some(Str(<<"reviewer", 2, 1>>))
    /\ Len(calls) = 5
    /\ synth_calls = 0

\* C37: whenever a status request is answered, a job reported "done" has a
\* result and a rounds_completed, and a job reported "error" has an error
\* message.
C37_TerminalStatusHasPayload ==
    /\ get_debate_status.status = "done"
          => /\ get_debate_status.result # None
             /\ get_debate_status.rounds_completed # None
    /\ get_debate_status.status = "error"
          => get_debate_status.error # None

\* the status of the entry changes only from absent to "running" (start_debate)
\* and from "running" to "done" or "error"
StatusChangesOnce ==
    job'.status # job.status =>
        \/ job.status = "absent" /\ job'.status = "running"
        \/ job.status = "running" /\ job'.status \in {"done", "error"}

\* final_synthesis is called at most once, and only after run_debate has
\* returned (its result is set; a run that raised has none)
SynthesisAfterDebate ==
    /\ synth_calls <= 1
    /\ synth_calls = 1 => result.set /\ pc \notin Running \cup {"raised"}

\* "done" only after run_debate and final_synthesis have both returned
DoneAfterBoth ==
    job.status = "done" => result.set /\ synth_calls = 1 /\ caught = None

\* C38: the status of a job starts as "running" and changes exactly once, to
\* "done" or to "error", and never again; "done" is reached only after
\* run_debate and final_synthesis have both returned; final_synthesis is called
\* at most once, after the debate, and never when the debate raised.
C38_StatusChangesExactlyOnce ==
    /\ [][StatusChangesOnce]_vars
    /\ [](SynthesisAfterDebate)
    /\ [](DoneAfterBoth)
    /\ (job.status = "running") ~> (job.status \in {"done", "error"})

\* the worker has finished a job whose debate ran all rounds and whose
\* synthesis returned
C38_Witness ==
    /\ pc = "job_end"
    /\ job.status = "done"
    /\ job.result # None
    /\ synth_calls = 1
    /\ result.rounds_completed = rounds

\* ---------------------------------------------------------- claims on SpecMcp
\* the reviewer calls of rounds 1..n in the order of the loops
AllCells(n) ==
    [k \in 1..(3 * n) |-> <<"reviewer", ((k - 1) \div 3) + 1, (k - 1) % 3>>]

\* C39: a run with auto_stop = true and rounds <= min_rounds (debate_quick:
\* rounds = 2, min_rounds = 2) never calls the convergence judge and never
\* stops early; when the tool returns, it has made the 3 * rounds reviewer
\* calls (6 for debate_quick) in order and then exactly one synthesis call.
C39_QuickNeverAsksJudge ==
    (auto_stop /\ rounds <= min_rounds) =>
        /\ \A k \in 1..Len(calls) : ~IsJudge(calls[k])
        /\ pc # "judge"
        /\ ~verdict.set
        /\ result.set => /\ result.stop_reason = NoneReason
                          /\ result.rounds_completed = rounds
        /\ synth_calls > 0 => result.set /\ calls = AllCells(rounds)
        /\ pc = "mcp_returned" => /\ synth_calls = 1
                                   /\ calls = AllCells(rounds)
                                   /\ debate_quick => Len(calls) = 6

\* debate_quick has returned
C39_Witness ==
    /\ debate_quick
    /\ pc = "mcp_returned"
    /\ Len(calls) = 6
    /\ synth_calls = 1

\* ----------------------------------------------------- claims on SpecClients
\* C20: concurrent debate runs started through the HTTP API share no mutable
\* state other than the job table: no variable written by one run's thread
\* (the client handles and the console included) is read or written by the
\* thread of another run, and each run writes its checkpoints only in its own
\* directory.
C20_RunsShareOnlyJobTable ==
    /\ \A v \in SharedNames : \A t \in writers[v] :
          readers[v] \cup writers[v] \subseteq {t}
    /\ \A f \in files : f.dir = th[f.by].tmpdir
    /\ \A t \in Threads : \A u \in Threads \ {t} :
          th[t].tmpdir # 0 => th[t].tmpdir # th[u].tmpdir

\* ------------------------------------------------------- claims on SpecJudge
Checked == pc \in {"checked", "stop", "continue"}
Has(s, t) == \E k \in 1..Len(s) : s[k] = t

\* C21: the confidence call_convergence_check returns is an integer in
\* 0..100 for every reply of the judge, also for a reply whose
\* ---CONFIDENCE--- section holds a number above 100.
C21_ConfidenceInRange ==
    Checked => check_out.confidence \in 0..100

\* a marker, blanks and line breaks with a line break among them, then a
\* token of the set ws
Section(s, open, ws) ==
    \E p \in 1..Len(s), e \in 1..Len(s) :
       /\ p < e
       /\ s[p] = open
       /\ s[e] \in ws
       /\ \A j \in (p + 1)..(e - 1) : IsSpace(s[j])
       /\ \E j \in (p + 1)..(e - 1) : s[j] = TokNewline

\* C22: the defaults of call_convergence_check are independent: without a
\* recognised ---VERDICT--- section should_stop is not true, without a
\* ---CONFIDENCE--- marker the confidence is 50, without ---REASON--- or
\* without ---ENDE--- the reason is the placeholder, and each section that is
\* there is evaluated whatever the others are; a reply without the verdict
\* marker never stops the run, whatever its confidence.
C22_IndependentDefaults ==
    Checked =>
      /\ ~Section(raw, TokVerdict, {TokStop, TokContinue})
            => ~IsTrue(check_out.should_stop)
      /\ Section(raw, TokVerdict, {TokStop, TokContinue})
            => check_out.should_stop # None
      /\ ~Has(raw, TokConfidence) => check_out.confidence = DefaultConfidence
      /\ \A p \in 1..Len(raw), e \in 1..Len(raw), f \in 1..Len(raw) :
            (/\ p < e /\ e <= f
             /\ raw[p] = TokConfidence
             /\ \A k \in 1..Len(raw) : raw[k] = TokConfidence => k = p
             /\ \A j \in (p + 1)..(e - 1) : IsSpace(raw[j])
             /\ \E j \in (p + 1)..(e - 1) : raw[j] = TokNewline
             /\ \A j \in e..f : IsDigit(raw[j])
             /\ f = Len(raw) \/ ~IsDigit(raw[f + 1]))
            => check_out.confidence = IntOf(SubSeq(raw, e, f))
      /\ (~Has(raw, TokReason) \/ ~Has(raw, TokEnde))
            => check_out.reason = NoReason
      /\ (Section(raw, TokReason, JudgeTokens \ {TokNewline})
          /\ raw[Len(raw)] = TokEnde)
            => check_out.reason # NoReason
      /\ ~Has(raw, TokVerdict) => pc # "stop"

\* a reply with confidence 100 and a reason but no verdict section: both
\* are returned and the run goes on, even with threshold 0
C22_Witness ==
    /\ pc = "continue"
    /\ ~Has(raw, TokVerdict)
    /\ convergence_threshold = 0
    /\ check_out.should_stop = None
    /\ check_out.confidence = 100
    /\ check_out.reason = <<Txt("x", 0, 0, 0)>>

\* C30: when the call fails transiently on every attempt, _retry with
\* max_retries = n >= 1 has invoked it exactly n times and slept exactly n - 1
\* times, never after the last attempt, and raises the last failure; and it
\* returns no value that the call did not produce.
C30_ExhaustionRaisesLast ==
    max_retries >= 1 =>
      /\ pc # "retry_fell_through"
      /\ pc = "retry" => Len(sleeps) = invocations /\ invocations < max_retries
      /\ (pc = "retry_raised" /\ is_transient)
            => /\ invocations = max_retries
               /\ failures = max_retries
               /\ Len(sleeps) = max_retries - 1
               /\ retry_out = [kind |-> "raise", value |-> "None", exc |-> exc]
      /\ retry_out.kind = "value"
            => /\ pc = "retry_returned"
               /\ retry_out.value = func_value
               /\ func_value \in Values

\* three attempts, all failed transiently: two sleeps, then the failure raised
C30_Witness ==
    /\ pc = "retry_raised"
    /\ max_retries = 3
    /\ is_transient
    /\ invocations = 3
    /\ failures = 3
    /\ sleeps = <<2, 4>>
    /\ retry_out.kind = "raise"
    /\ retry_out.exc = exc

====
